---- MODULE Spec2Model ----
(***************************************************************************)
(* Clearance-aware grid pathfinding, its version-stamped spatial cache     *)
(* and the tick-driven request scheduler of k-vroy/elementals.             *)
(*                                                                         *)
(* World coordinates are integers (the f32 world positions of the source   *)
(* restricted to whole units); a radius is carried as `size` in hundredths *)
(* (size 100 is the source's 1.0).  Sample points of a segment are exact   *)
(* rationals px/d, py/d.  An Option<Vec<(f32,f32)>> is a record            *)
(* [some, pts]; an Option<Option<..>> lookup result is [hit, path].        *)
(***************************************************************************)
EXTENDS Integers, Sequences, FiniteSets, TLC

(***************************************************************************)
(* Bounds of the model.                                                    *)
(***************************************************************************)
GridW == 3
GridH == 2
TileSize == 32

(***************************************************************************)
(* Small helpers.                                                          *)
(***************************************************************************)
Abs(n) == IF n < 0 THEN -n ELSE n

Max(a, b) == IF a >= b THEN a ELSE b

Min(a, b) == IF a <= b THEN a ELSE b

CeilDiv(a, b) == -((-a) \div b)

Clamp(v, lo, hi) == Min(Max(v, lo), hi)

Range(s) == {s[i] : i \in DOMAIN s}

\* The element of a one-element set: Only({F(v) : v \in {e}}) is F(e) with e
\* evaluated once.
Only(S) == CHOOSE x \in S : TRUE

NonePath == [some |-> FALSE, pts |-> <<>>]

SomePath(p) == [some |-> TRUE, pts |-> p]

(***************************************************************************)
(* Terrain classes: the class table of tests/mod.rs, indexed in sorted     *)
(* name order (dirt 0, grass 1, stone 2, water 3).                         *)
(***************************************************************************)
Dirt == 0
Grass == 1
Stone == 2
Water == 3

GroundPassable == [t \in {Dirt, Grass, Stone, Water} |-> t \in {Dirt, Grass}]

\* GroundConfigs::is_passable: unknown class indices are impassable.
is_passable(terrain_type) ==
    IF terrain_type \in DOMAIN GroundPassable THEN GroundPassable[terrain_type] ELSE FALSE

(***************************************************************************)
(* TerrainMap: [width, height, tile_size, tiles], tiles indexed <<x, y>>.  *)
(***************************************************************************)
Cells(w, h) == (0..(w - 1)) \X (0..(h - 1))

\* TerrainMap::new: every cell starts with class 0.
TerrainMapNew(w, h, ts) ==
    [width |-> w, height |-> h, tile_size |-> ts, tiles |-> [c \in Cells(w, h) |-> 0]]

InBounds(tm, x, y) == x >= 0 /\ x < tm.width /\ y >= 0 /\ y < tm.height

\* A set_tile that moves a cell outside the grid to the nearest one inside.
set_tile_clamped(tm, x, y, terrain_type) ==
    [tm EXCEPT !.tiles[<<IF x < tm.width THEN x ELSE tm.width - 1,
                         IF y < tm.height THEN y ELSE tm.height - 1>>] = terrain_type]

\* TerrainMap::set_tile
set_tile(tm, x, y, terrain_type) ==
    IF x < tm.width /\ y < tm.height
    THEN [tm EXCEPT !.tiles[<<x, y>>] = terrain_type]
    ELSE tm

\* A conversion that rounds to the nearest cell instead of taking the floor.
TileOfQRounded(tm, px, py, d) ==
    << (2 * px + tm.width * tm.tile_size * d + tm.tile_size * d) \div (2 * tm.tile_size * d),
       (2 * py + tm.height * tm.tile_size * d + tm.tile_size * d) \div (2 * tm.tile_size * d) >>

\* Cell of the rational position (px/d, py/d), before the bounds test:
\* floor((p + half_extent) / tile_size).
TileOfQ(tm, px, py, d) ==
    << (2 * px + tm.width * tm.tile_size * d) \div (2 * tm.tile_size * d),
       (2 * py + tm.height * tm.tile_size * d) \div (2 * tm.tile_size * d) >>

\* TerrainMap::world_to_tile_coords, as [some, tile].
world_to_tile_coords(tm, wx, wy) ==
    LET t == TileOfQ(tm, wx, wy, 1)
    IN  IF InBounds(tm, t[1], t[2])
        THEN [some |-> TRUE, tile |-> t]
        ELSE [some |-> FALSE, tile |-> <<0, 0>>]

\* TerrainMap::tile_to_world_coords: the centre of a cell.
tile_to_world_coords(tm, tx, ty) ==
    << (2 * tx * tm.tile_size - tm.width * tm.tile_size + tm.tile_size) \div 2,
       (2 * ty * tm.tile_size - tm.height * tm.tile_size + tm.tile_size) \div 2 >>

\* TerrainMap::tile_to_world_coords in halves: the centre of a cell is
\* (r[1]/2, r[2]/2), exact also for an odd tile size.
tile_to_world_coords_q(tm, tx, ty) ==
    << 2 * tx * tm.tile_size - tm.width * tm.tile_size + tm.tile_size,
       2 * ty * tm.tile_size - tm.height * tm.tile_size + tm.tile_size >>

\* TerrainMap::world_to_tile_coords at the rational position (px/d, py/d).
world_to_tile_coords_q(tm, px, py, d) ==
    LET t == TileOfQ(tm, px, py, d)
    IN  IF InBounds(tm, t[1], t[2])
        THEN [some |-> TRUE, tile |-> t]
        ELSE [some |-> FALSE, tile |-> <<0, 0>>]

\* TerrainMap::get_terrain_at_world_pos, as [some, terrain].
get_terrain_at_world_pos(tm, wx, wy) ==
    LET t == TileOfQ(tm, wx, wy, 1)
    IN  IF InBounds(tm, t[1], t[2])
        THEN [some |-> TRUE, terrain |-> tm.tiles[t]]
        ELSE [some |-> FALSE, terrain |-> 0]

\* TerrainMap::is_passable_at_world_pos
is_passable_at_world_pos(tm, wx, wy) ==
    LET t == get_terrain_at_world_pos(tm, wx, wy)
    IN  IF t.some THEN is_passable(t.terrain) ELSE FALSE

\* A passability test that takes what lies outside the grid as open ground.
is_tile_passable_open(tm, tx, ty) ==
    IF InBounds(tm, tx, ty) THEN is_passable(tm.tiles[<<tx, ty>>]) ELSE TRUE

\* TerrainMap::is_tile_passable
is_tile_passable(tm, tx, ty) ==
    IF InBounds(tm, tx, ty) THEN is_passable(tm.tiles[<<tx, ty>>]) ELSE FALSE

(***************************************************************************)
(* ClearanceCheck.                                                         *)
(***************************************************************************)
\* A clearance test that looks at the pawn's own cell only.
RadiusInTilesNone(size) == 0

\* radius_in_tiles = ceil((size * tile_size / 2) / tile_size) = ceil(size / 2).
RadiusInTiles(size) == CeilDiv(size, 200)

\* The clearance test without the tolerance: an impassable cell nearer than
\* the whole radius, size * tile_size / 2, blocks.
is_position_passable_for_size_strict(tm, px, py, d, size) ==
    LET center == TileOfQ(tm, px, py, d)
        r == RadiusInTiles(size)
        reach == size * tm.tile_size * d
        Overlaps(tx, ty) ==
            LET tw == tile_to_world_coords(tm, tx, ty)
                cx == Clamp(px, ((2 * tw[1] - tm.tile_size) * d) \div 2,
                                ((2 * tw[1] + tm.tile_size) * d) \div 2)
                cy == Clamp(py, ((2 * tw[2] - tm.tile_size) * d) \div 2,
                                ((2 * tw[2] + tm.tile_size) * d) \div 2)
                dist2 == (cx - px) * (cx - px) + (cy - py) * (cy - py)
            IN  reach > 0 /\ dist2 < CeilDiv(reach * reach, 40000)
    IN  /\ InBounds(tm, center[1], center[2])
        /\ is_tile_passable(tm, center[1], center[2])
        /\ \A dx \in (-r)..r : \A dy \in (-r)..r :
              \/ is_tile_passable(tm, center[1] + dx, center[2] + dy)
              \/ ~Overlaps(center[1] + dx, center[2] + dy)

\* TerrainMap::is_position_passable_for_size at the rational position
\* (px/d, py/d).  radius - tolerance = (size - 50) * tile_size / 200; the
\* distance test is made on squares: dist2 * 40000 < reach^2.
is_position_passable_for_size_q(tm, px, py, d, size) ==
    LET center == TileOfQ(tm, px, py, d)
        r == RadiusInTiles(size)
        reach == (size - 50) * tm.tile_size * d
        Overlaps(tx, ty) ==
            LET tw == tile_to_world_coords(tm, tx, ty)
                cx == Clamp(px, ((2 * tw[1] - tm.tile_size) * d) \div 2,
                                ((2 * tw[1] + tm.tile_size) * d) \div 2)
                cy == Clamp(py, ((2 * tw[2] - tm.tile_size) * d) \div 2,
                                ((2 * tw[2] + tm.tile_size) * d) \div 2)
                dist2 == (cx - px) * (cx - px) + (cy - py) * (cy - py)
            IN  reach > 0 /\ dist2 < CeilDiv(reach * reach, 40000)
    IN  /\ InBounds(tm, center[1], center[2])
        /\ is_tile_passable(tm, center[1], center[2])
        /\ \A dx \in (-r)..r : \A dy \in (-r)..r :
              \/ is_tile_passable(tm, center[1] + dx, center[2] + dy)
              \/ ~Overlaps(center[1] + dx, center[2] + dy)

\* TerrainMap::is_position_passable_for_size
is_position_passable_for_size(tm, wx, wy, size) ==
    is_position_passable_for_size_q(tm, wx, wy, 1, size)

\* Number of samples of a segment: ceil(distance / sample_interval), at most
\* 50, at least 1.  sample_interval = u * tile_size / 400, so n samples
\* suffice iff (n * u)^2 >= 160000 * dist2 / tile_size^2.
NumSamples(tm, dist2, size) ==
    LET u == IF size < 50 THEN 100 ELSE size
        need == CeilDiv(160000 * dist2, tm.tile_size * tm.tile_size)
        fits == {n \in 0..50 : (n * u) * (n * u) >= need}
        n0 == IF fits = {} THEN 50 ELSE CHOOSE n \in fits : \A m \in fits : n <= m
    IN  IF n0 = 0 THEN 1 ELSE n0

\* TerrainMap::is_path_segment_clear (the cache-less call made by the search).
is_path_segment_clear(tm, from, to, size) ==
    LET dx == to[1] - from[1]
        dy == to[2] - from[2]
        dist2 == dx * dx + dy * dy
        n == NumSamples(tm, dist2, size)
    IN  IF 100 * dist2 < tm.tile_size * tm.tile_size
        THEN is_position_passable_for_size(tm, to[1], to[2], size)
        ELSE \A i \in 0..n :
                is_position_passable_for_size_q(tm, from[1] * n + dx * i,
                                                from[2] * n + dy * i, n, size)

(***************************************************************************)
(* PathSearch: A* over 8-connected cells.                                  *)
(***************************************************************************)
\* The neighbour list of the successor closure, in source order.
NeighborOffsets ==
    << <<1, 0>>, <<-1, 0>>, <<0, 1>>, <<0, -1>>,
       <<1, 1>>, <<1, -1>>, <<-1, 1>>, <<-1, -1>> >>

StraightCost == 10
DiagonalCost == 14

MoveCost(a, b) == IF a[1] # b[1] /\ a[2] # b[2] THEN DiagonalCost ELSE StraightCost

\* The filter of the successor closure: destination clearance-passable and
\* the segment between the two cell centres clear.
MoveAllowed(tm, a, b, size) ==
    LET tw == tile_to_world_coords(tm, b[1], b[2])
        fw == tile_to_world_coords(tm, a[1], a[2])
    IN  /\ is_position_passable_for_size(tm, tw[1], tw[2], size)
        /\ is_path_segment_clear(tm, fw, tw, size)

Successors(tm, a, size) ==
    LET cand == [i \in 1..8 |-> <<a[1] + NeighborOffsets[i][1], a[2] + NeighborOffsets[i][2]>>]
    IN  SelectSeq(cand, LAMBDA b : MoveAllowed(tm, a, b, size))

\* A heuristic that charges 5 for the shorter axis: a diagonal step, of cost
\* 14, lowers it by 15.
HeuristicSteep(a, goal) ==
    LET dx == Abs(a[1] - goal[1])
        dy == Abs(a[2] - goal[2])
    IN  Max(dx, dy) * 10 + Min(dx, dy) * 5

\* The heuristic closure: 10 * max(dx, dy) + 4 * min(dx, dy).
Heuristic(a, goal) ==
    LET dx == Abs(a[1] - goal[1])
        dy == Abs(a[2] - goal[2])
    IN  Max(dx, dy) * 10 + Min(dx, dy) * 4

\* A frontier that pops the entry of greatest cost so far, the oldest among
\* equals: a depth-first search.
PopEntryDeepest(open) ==
    CHOOSE e \in open : \A o \in open :
        \/ e.g > o.g
        \/ e.g = o.g /\ e.k <= o.k

\* pathfinding::astar.  open holds the heap entries [f, g, n, k]; the entry
\* popped is one of least estimated cost f and, among those, of greatest
\* cost g (the crate's ordering); remaining ties go to the oldest entry k.
\* parents maps each seen cell to [parent, cost].
PopEntry(open) ==
    CHOOSE e \in open : \A o \in open :
        \/ e.f < o.f
        \/ e.f = o.f /\ e.g > o.g
        \/ e.f = o.f /\ e.g = o.g /\ e.k <= o.k

RECURSIVE Relax(_, _, _, _, _, _)
Relax(succ, i, e, goal, open, parents) ==
    IF i > Len(succ) THEN [open |-> open, parents |-> parents]
    ELSE LET s == succ[i]
             new_cost == e.g + MoveCost(e.n, s)
             better == s \notin DOMAIN parents \/ parents[s].cost > new_cost
             parents2 == IF better
                         THEN [c \in DOMAIN parents \cup {s} |->
                                  IF c = s THEN [parent |-> e.n, cost |-> new_cost]
                                  ELSE parents[c]]
                         ELSE parents
             open2 == IF better
                      THEN open \cup {[f |-> new_cost + Heuristic(s, goal), g |-> new_cost,
                                       n |-> s, k |-> Cardinality(DOMAIN parents) * 8 + i]}
                      ELSE open
         IN  Relax(succ, i + 1, e, goal, open2, parents2)

RECURSIVE BuildPath(_, _)
BuildPath(parents, node) ==
    IF parents[node].parent = node THEN <<node>>
    ELSE Append(BuildPath(parents, parents[node].parent), node)

RECURSIVE AStarLoop(_, _, _, _, _)
AStarLoop(tm, goal, size, open, parents) ==
    IF open = {} THEN NonePath
    ELSE LET e == PopEntry(open)
             rest == open \ {e}
         IN  IF e.n = goal THEN SomePath(BuildPath(parents, goal))
             ELSE IF e.g > parents[e.n].cost THEN AStarLoop(tm, goal, size, rest, parents)
             ELSE LET r == Relax(Successors(tm, e.n, size), 1, e, goal, rest, parents)
                  IN  AStarLoop(tm, goal, size, r.open, r.parents)

astar(tm, start, goal, size) ==
    AStarLoop(tm, goal, size,
              {[f |-> 0, g |-> 0, n |-> start, k |-> 0]},
              [c \in {start} |-> [parent |-> start, cost |-> 0]])

\* TerrainMap::find_path_for_size_internal with cache = None, which is
\* find_path_for_size: the search the worker runs.
find_path_for_size(tm, start_world, goal_world, size) ==
    LET start_tile == world_to_tile_coords(tm, start_world[1], start_world[2])
        goal_tile == world_to_tile_coords(tm, goal_world[1], goal_world[2])
    IN  IF ~start_tile.some \/ ~goal_tile.some THEN NonePath
        ELSE IF ~is_position_passable_for_size(tm, start_world[1], start_world[2], size)
        THEN NonePath
        ELSE IF ~is_position_passable_for_size(tm, goal_world[1], goal_world[2], size)
        THEN NonePath
        ELSE LET r == astar(tm, start_tile.tile, goal_tile.tile, size)
             IN  IF r.some
                 THEN SomePath([i \in 1..Len(r.pts) |->
                                   tile_to_world_coords(tm, r.pts[i][1], r.pts[i][2])])
                 ELSE NonePath

(***************************************************************************)
(* TerrainChanges: the pending change set, a list of <<x, y, class>>.      *)
(***************************************************************************)
\* TerrainChanges::add_change
add_change(changed_tiles, x, y, terrain_type) == Append(changed_tiles, <<x, y, terrain_type>>)

\* A set_tile_at_world_pos that sets the cell and records nothing.
set_tile_unrecorded(tm, wx, wy, terrain_type, changed_tiles) ==
    LET t == world_to_tile_coords(tm, wx, wy)
    IN  IF t.some /\ InBounds(tm, t.tile[1], t.tile[2])
        THEN [ok |-> TRUE,
              tm |-> [tm EXCEPT !.tiles[t.tile] = terrain_type],
              changes |-> changed_tiles]
        ELSE [ok |-> FALSE, tm |-> tm, changes |-> changed_tiles]

\* TerrainMap::set_tile_at_world_pos, as [ok, tm, changes].
set_tile_at_world_pos(tm, wx, wy, terrain_type, changed_tiles) ==
    LET t == world_to_tile_coords(tm, wx, wy)
    IN  IF t.some /\ InBounds(tm, t.tile[1], t.tile[2])
        THEN [ok |-> TRUE,
              tm |-> [tm EXCEPT !.tiles[t.tile] = terrain_type],
              changes |-> add_change(changed_tiles, t.tile[1], t.tile[2], terrain_type)]
        ELSE [ok |-> FALSE, tm |-> tm, changes |-> changed_tiles]

(***************************************************************************)
(* PathfindingCache.  path_cache, passability_cache and spatial_index are  *)
(* functions whose domain is the set of keys present.                      *)
(***************************************************************************)
Put(f, k, v) == [x \in (DOMAIN f) \cup {k} |-> IF x = k THEN v ELSE f[x]]

Drop(f, ks) == [x \in (DOMAIN f) \ ks |-> f[x]]

EmptyMap == [x \in {} |-> 0]

ExpirySecs == 30
INVALIDATION_RADIUS == 3

\* PathfindingCache::new
PathfindingCacheNew ==
    [path_cache |-> EmptyMap,
     passability_cache |-> EmptyMap,
     terrain_version |-> 1,
     spatial_index |-> EmptyMap,
     stats |-> [path_cache_hits |-> 0, path_cache_misses |-> 0,
                passability_cache_hits |-> 0, passability_cache_misses |-> 0,
                terrain_invalidations |-> 0, cache_size |-> 0]]

\* A quantization that truncates instead of rounding.
quantize_truncating(size) ==
    LET r == IF size >= 0 THEN (8 * size) \div 100 ELSE 0
    IN  IF r > 255 THEN 255 ELSE r

\* PathfindingCache::quantize_size: (size * 8.0).round().min(255.0) as u8.
\* round is half away from zero; the cast saturates negatives to 0.
quantize_size(size) ==
    LET r == IF size >= 0 THEN (8 * size + 50) \div 100 ELSE -((50 - 8 * size) \div 100)
    IN  IF r > 255 THEN 255 ELSE IF r < 0 THEN 0 ELSE r

PathCacheKey(start, goal, size) ==
    [start_tile |-> start, goal_tile |-> goal, size_tier |-> quantize_size(size)]

PassabilityCacheKey(tile_x, tile_y, size) ==
    [tile_x |-> tile_x, tile_y |-> tile_y, size_tier |-> quantize_size(size)]

\* PathfindingCache::update_stats
update_stats(cache) ==
    Only({[c EXCEPT !.stats.cache_size =
              Cardinality(DOMAIN c.path_cache) + Cardinality(DOMAIN c.passability_cache)] :
          c \in {cache}})

\* PathfindingCache::get_affected_tiles: the cells within radius_in_tiles of
\* each waypoint that lies in the grid, kept when both coordinates are >= 0.
get_affected_tiles(pts, size, tm) ==
    LET r == RadiusInTiles(size)
    IN  UNION { IF c.some
                THEN {t \in {<<c.tile[1] + dx, c.tile[2] + dy>> :
                                dx \in (-r)..r, dy \in (-r)..r} :
                         t[1] >= 0 /\ t[2] >= 0}
                ELSE {}
                : c \in {world_to_tile_coords(tm, pts[i][1], pts[i][2]) : i \in DOMAIN pts} }

\* PathfindingCache::cleanup_spatial_index: drop key from the list of each
\* given tile, and drop the tile when its list becomes empty.
cleanup_spatial_index(index, key, affected_tiles) ==
    LET touched == affected_tiles \cap DOMAIN index
        Kept(tile) == SelectSeq(index[tile], LAMBDA k : k # key)
        gone == {tile \in touched : Kept(tile) = <<>>}
    IN  [tile \in (DOMAIN index) \ gone |->
            IF tile \in touched THEN Kept(tile) ELSE index[tile]]

\* A purge of the passability entries of the changed cell alone.
invalidate_passability_at_tile(passability_cache, center_x, center_y) ==
    LET keep == {k \in DOMAIN passability_cache :
                    k.tile_x # center_x \/ k.tile_y # center_y}
    IN  [k \in keep |-> passability_cache[k]]

\* PathfindingCache::invalidate_passability_around_tile
invalidate_passability_around_tile(passability_cache, center_x, center_y) ==
    LET keep == {k \in DOMAIN passability_cache :
                    \/ Abs(k.tile_x - center_x) > INVALIDATION_RADIUS
                    \/ Abs(k.tile_y - center_y) > INVALIDATION_RADIUS}
    IN  [k \in keep |-> passability_cache[k]]

RECURSIVE InvalidatePassability(_, _, _)
InvalidatePassability(passability_cache, changed_tiles, i) ==
    IF i > Len(changed_tiles) THEN passability_cache
    ELSE InvalidatePassability(
             invalidate_passability_around_tile(passability_cache,
                                                changed_tiles[i][1], changed_tiles[i][2]),
             changed_tiles, i + 1)

\* The removal loop of invalidate_from_terrain_changes over keys_to_remove.
RECURSIVE RemoveKeys(_, _)
RemoveKeys(cache, keys) ==
    IF keys = {} THEN cache
    ELSE LET key == CHOOSE k \in keys : TRUE
             next == IF key \in DOMAIN cache.path_cache
                     THEN [cache EXCEPT
                              !.path_cache = Drop(cache.path_cache, {key}),
                              !.spatial_index =
                                  cleanup_spatial_index(cache.spatial_index, key,
                                      cache.path_cache[key].affected_tiles)]
                     ELSE cache
         IN  RemoveKeys(next, keys \ {key})

\* An invalidation that drops the crossed paths but leaves terrain_version
\* as it was.
invalidate_keeping_version(cache, changed_tiles) ==
    IF changed_tiles = <<>> THEN cache
    ELSE LET keys_to_remove ==
                 UNION { IF <<changed_tiles[i][1], changed_tiles[i][2]>> \in DOMAIN cache.spatial_index
                         THEN Range(cache.spatial_index[<<changed_tiles[i][1], changed_tiles[i][2]>>])
                         ELSE {}
                         : i \in DOMAIN changed_tiles }
         IN  update_stats(RemoveKeys(cache, keys_to_remove))

\* An invalidation without the early return on an empty change set.
invalidate_unconditionally(cache, changed_tiles) ==
    LET bumped == [cache EXCEPT
                      !.terrain_version = cache.terrain_version + 1,
                      !.stats.terrain_invalidations = cache.stats.terrain_invalidations + 1,
                      !.passability_cache =
                          InvalidatePassability(cache.passability_cache, changed_tiles, 1)]
        keys_to_remove ==
            UNION { IF <<changed_tiles[i][1], changed_tiles[i][2]>> \in DOMAIN cache.spatial_index
                    THEN Range(cache.spatial_index[<<changed_tiles[i][1], changed_tiles[i][2]>>])
                    ELSE {}
                    : i \in DOMAIN changed_tiles }
    IN  update_stats(RemoveKeys(bumped, keys_to_remove))

\* An invalidation that raises terrain_version once per changed cell.
invalidate_per_cell(cache, changed_tiles) ==
    IF changed_tiles = <<>> THEN cache
    ELSE LET bumped == [cache EXCEPT
                           !.terrain_version = cache.terrain_version + Len(changed_tiles),
                           !.stats.terrain_invalidations = cache.stats.terrain_invalidations + 1,
                           !.passability_cache =
                               InvalidatePassability(cache.passability_cache, changed_tiles, 1)]
             keys_to_remove ==
                 UNION { IF <<changed_tiles[i][1], changed_tiles[i][2]>> \in DOMAIN cache.spatial_index
                         THEN Range(cache.spatial_index[<<changed_tiles[i][1], changed_tiles[i][2]>>])
                         ELSE {}
                         : i \in DOMAIN changed_tiles }
         IN  update_stats(RemoveKeys(bumped, keys_to_remove))

\* PathfindingCache::invalidate_from_terrain_changes
invalidate_from_terrain_changes(cache, changed_tiles) ==
    IF changed_tiles = <<>> THEN cache
    ELSE LET bumped == [cache EXCEPT
                           !.terrain_version = cache.terrain_version + 1,
                           !.stats.terrain_invalidations = cache.stats.terrain_invalidations + 1,
                           !.passability_cache =
                               InvalidatePassability(cache.passability_cache, changed_tiles, 1)]
             keys_to_remove ==
                 UNION { IF <<changed_tiles[i][1], changed_tiles[i][2]>> \in DOMAIN cache.spatial_index
                         THEN Range(cache.spatial_index[<<changed_tiles[i][1], changed_tiles[i][2]>>])
                         ELSE {}
                         : i \in DOMAIN changed_tiles }
         IN  update_stats(RemoveKeys(bumped, keys_to_remove))

\* A lookup that drops a stale entry without counting the miss.
get_path_stale_uncounted(cache, start, goal, size, now) ==
    LET key == PathCacheKey(start, goal, size)
        missed(c) == [cache |-> [c EXCEPT !.stats.path_cache_misses = c.stats.path_cache_misses + 1],
                      hit |-> FALSE, path |-> NonePath]
    IN  IF key \in DOMAIN cache.path_cache
        THEN IF cache.path_cache[key].terrain_version = cache.terrain_version
             THEN [cache |-> [cache EXCEPT
                                 !.stats.path_cache_hits = cache.stats.path_cache_hits + 1,
                                 !.path_cache[key].last_accessed = now],
                   hit |-> TRUE, path |-> cache.path_cache[key].path]
             ELSE [cache |-> [cache EXCEPT
                                 !.path_cache = Drop(cache.path_cache, {key}),
                                 !.spatial_index =
                                     cleanup_spatial_index(cache.spatial_index, key,
                                         cache.path_cache[key].affected_tiles)],
                   hit |-> FALSE, path |-> NonePath]
        ELSE missed(cache)

\* PathfindingCache::get_path, as [cache, hit, path].
get_path(cache, start, goal, size, now) ==
    LET key == PathCacheKey(start, goal, size)
        missed(c) == [cache |-> [c EXCEPT !.stats.path_cache_misses = c.stats.path_cache_misses + 1],
                      hit |-> FALSE, path |-> NonePath]
    IN  IF key \in DOMAIN cache.path_cache
        THEN IF cache.path_cache[key].terrain_version = cache.terrain_version
             THEN [cache |-> [cache EXCEPT
                                 !.stats.path_cache_hits = cache.stats.path_cache_hits + 1,
                                 !.path_cache[key].last_accessed = now],
                   hit |-> TRUE, path |-> cache.path_cache[key].path]
             ELSE missed([cache EXCEPT
                             !.path_cache = Drop(cache.path_cache, {key}),
                             !.spatial_index =
                                 cleanup_spatial_index(cache.spatial_index, key,
                                     cache.path_cache[key].affected_tiles)])
        ELSE missed(cache)

\* PathfindingCache::get_hit_ratio: the quotient hits / (hits + misses) as a
\* fraction <<numerator, denominator>>, 0 / 1 when there was no lookup.
get_hit_ratio(cache) ==
    LET total_requests == cache.stats.path_cache_hits + cache.stats.path_cache_misses
    IN  IF total_requests > 0
        THEN <<cache.stats.path_cache_hits, total_requests>>
        ELSE <<0, 1>>

\* The spatial-index loop of cache_path: push key on the list of each tile.
IndexPush(index, key, affected_tiles) ==
    [tile \in (DOMAIN index) \cup affected_tiles |->
        IF tile \in affected_tiles
        THEN Append(IF tile \in DOMAIN index THEN index[tile] ELSE <<>>, key)
        ELSE index[tile]]

\* A cache_path that stores found paths only.
cache_path_found_only(cache, start, goal, size, path, tm, now) ==
    LET key == PathCacheKey(start, goal, size)
    IN  IF ~path.some THEN cache
        ELSE Only({ update_stats([cache EXCEPT
                        !.spatial_index = IndexPush(cache.spatial_index, key, affected_tiles),
                        !.path_cache = Put(cache.path_cache, key,
                            [path |-> path,
                             terrain_version |-> cache.terrain_version,
                             last_accessed |-> now,
                             affected_tiles |-> affected_tiles])]) :
                    affected_tiles \in {get_affected_tiles(path.pts, size, tm)} })

\* A cache_path that keeps the entry a key already has.
cache_path_or_keep(cache, start, goal, size, path, tm, now) ==
    LET key == PathCacheKey(start, goal, size)
        cached_result(affected_tiles) ==
            [path |-> path,
             terrain_version |-> cache.terrain_version,
             last_accessed |-> now,
             affected_tiles |-> affected_tiles]
    IN  IF key \in DOMAIN cache.path_cache THEN cache
        ELSE Only({ update_stats([cache EXCEPT
                        !.spatial_index = IndexPush(cache.spatial_index, key, affected_tiles),
                        !.path_cache = Put(cache.path_cache, key,
                                           cached_result(affected_tiles))]) :
                    affected_tiles \in
                        {IF path.some THEN get_affected_tiles(path.pts, size, tm) ELSE {}} })

\* PathfindingCache::cache_path
cache_path(cache, start, goal, size, path, tm, now) ==
    LET key == PathCacheKey(start, goal, size)
        cached_result(affected_tiles) ==
            [path |-> path,
             terrain_version |-> cache.terrain_version,
             last_accessed |-> now,
             affected_tiles |-> affected_tiles]
    IN  Only({ update_stats([cache EXCEPT
                   !.spatial_index = IndexPush(cache.spatial_index, key, affected_tiles),
                   !.path_cache = Put(cache.path_cache, key, cached_result(affected_tiles))]) :
               affected_tiles \in
                   {IF path.some THEN get_affected_tiles(path.pts, size, tm) ELSE {}} })

\* PathfindingCache::get_passability, as [cache, hit, is_passable].
get_passability(cache, tile_x, tile_y, size, now) ==
    LET key == PassabilityCacheKey(tile_x, tile_y, size)
        missed(c) == [cache |-> [c EXCEPT !.stats.passability_cache_misses =
                                              c.stats.passability_cache_misses + 1],
                      hit |-> FALSE, is_passable |-> FALSE]
    IN  IF key \in DOMAIN cache.passability_cache
        THEN IF cache.passability_cache[key].terrain_version = cache.terrain_version
             THEN [cache |-> [cache EXCEPT
                                 !.passability_cache[key].last_accessed = now,
                                 !.stats.passability_cache_hits =
                                     cache.stats.passability_cache_hits + 1],
                   hit |-> TRUE, is_passable |-> cache.passability_cache[key].is_passable]
             ELSE missed([cache EXCEPT
                             !.passability_cache = Drop(cache.passability_cache, {key})])
        ELSE missed(cache)

\* PathfindingCache::cache_passability
cache_passability(cache, tile_x, tile_y, size, is_passable_, now) ==
    [cache EXCEPT !.passability_cache =
        Put(cache.passability_cache, PassabilityCacheKey(tile_x, tile_y, size),
            [is_passable |-> is_passable_,
             terrain_version |-> cache.terrain_version,
             last_accessed |-> now])]

\* The path-cache sweep of cleanup_expired_entries over expired_keys.
RECURSIVE CleanExpired(_, _, _)
CleanExpired(index, path_cache, keys) ==
    IF keys = {} THEN index
    ELSE LET key == CHOOSE k \in keys : TRUE
         IN  CleanExpired(cleanup_spatial_index(index, key, path_cache[key].affected_tiles),
                          path_cache, keys \ {key})

\* PathfindingCache::cleanup_expired_entries
cleanup_expired_entries(cache, now) ==
    LET expired == {k \in DOMAIN cache.path_cache :
                       now - cache.path_cache[k].last_accessed > ExpirySecs}
        stale == {k \in DOMAIN cache.passability_cache :
                     ~(now - cache.passability_cache[k].last_accessed <= ExpirySecs)}
    IN  update_stats([cache EXCEPT
            !.path_cache = Drop(cache.path_cache, expired),
            !.spatial_index = CleanExpired(cache.spatial_index, cache.path_cache, expired),
            !.passability_cache = Drop(cache.passability_cache, stale)])

\* A search that tests the start only before it runs A*.
find_path_for_size_unchecked_goal(tm, start_world, goal_world, size) ==
    LET start_tile == world_to_tile_coords(tm, start_world[1], start_world[2])
        goal_tile == world_to_tile_coords(tm, goal_world[1], goal_world[2])
    IN  IF ~start_tile.some \/ ~goal_tile.some THEN [path |-> NonePath, searched |-> FALSE]
        ELSE IF ~is_position_passable_for_size(tm, start_world[1], start_world[2], size)
        THEN [path |-> NonePath, searched |-> FALSE]
        ELSE [path |-> find_path_for_size(tm, start_world, goal_world, size),
              searched |-> TRUE]

\* find_path_for_size with the trace of its steps, as [path, searched]:
\* searched tells whether astar was called.
find_path_for_size_traced(tm, start_world, goal_world, size) ==
    LET start_tile == world_to_tile_coords(tm, start_world[1], start_world[2])
        goal_tile == world_to_tile_coords(tm, goal_world[1], goal_world[2])
    IN  IF ~start_tile.some \/ ~goal_tile.some THEN [path |-> NonePath, searched |-> FALSE]
        ELSE IF ~is_position_passable_for_size(tm, start_world[1], start_world[2], size)
        THEN [path |-> NonePath, searched |-> FALSE]
        ELSE IF ~is_position_passable_for_size(tm, goal_world[1], goal_world[2], size)
        THEN [path |-> NonePath, searched |-> FALSE]
        ELSE [path |-> find_path_for_size(tm, start_world, goal_world, size),
              searched |-> TRUE]

(***************************************************************************)
(* The cached search.  Each operator returns the value and the cache.      *)
(***************************************************************************)
\* TerrainMap::is_position_passable_for_size_with_cache with Some(cache),
\* as [result, cache].
is_position_passable_for_size_with_cache(tm, wx, wy, size, cache, now) ==
    LET t == world_to_tile_coords(tm, wx, wy)
    IN  IF ~t.some THEN [result |-> FALSE, cache |-> cache]
        ELSE LET g == get_passability(cache, t.tile[1], t.tile[2], size, now)
             IN  IF g.hit THEN [result |-> g.is_passable, cache |-> g.cache]
                 ELSE LET result == is_position_passable_for_size(tm, wx, wy, size)
                      IN  [result |-> result,
                           cache |-> cache_passability(g.cache, t.tile[1], t.tile[2], size,
                                                       result, now)]

\* TerrainMap::find_path_for_size_internal with Some(cache), as [path, cache]:
\* the two endpoint tests go through the passability cache, the A* closure
\* uses the uncached test.
find_path_for_size_internal(tm, start_world, goal_world, size, cache, now) ==
    LET start_tile == world_to_tile_coords(tm, start_world[1], start_world[2])
        goal_tile == world_to_tile_coords(tm, goal_world[1], goal_world[2])
    IN  IF ~start_tile.some \/ ~goal_tile.some THEN [path |-> NonePath, cache |-> cache]
        ELSE LET s == is_position_passable_for_size_with_cache(
                          tm, start_world[1], start_world[2], size, cache, now)
             IN  IF ~s.result THEN [path |-> NonePath, cache |-> s.cache]
                 ELSE LET g == is_position_passable_for_size_with_cache(
                                   tm, goal_world[1], goal_world[2], size, s.cache, now)
                      IN  IF ~g.result THEN [path |-> NonePath, cache |-> g.cache]
                          ELSE LET r == astar(tm, start_tile.tile, goal_tile.tile, size)
                               IN  [path |-> IF r.some
                                             THEN SomePath([i \in 1..Len(r.pts) |->
                                                      tile_to_world_coords(tm, r.pts[i][1],
                                                                           r.pts[i][2])])
                                             ELSE NonePath,
                                    cache |-> g.cache]

\* TerrainMap::find_path_for_size_cached, as [path, cache, hit, searched].
find_path_for_size_cached(tm, start_world, goal_world, size, cache, now) ==
    LET start_tile == world_to_tile_coords(tm, start_world[1], start_world[2])
        goal_tile == world_to_tile_coords(tm, goal_world[1], goal_world[2])
    IN  IF ~start_tile.some \/ ~goal_tile.some
        THEN [path |-> NonePath, cache |-> cache, hit |-> FALSE, searched |-> FALSE]
        ELSE LET r == get_path(cache, start_tile.tile, goal_tile.tile, size, now)
             IN  IF r.hit
                 THEN [path |-> r.path, cache |-> r.cache, hit |-> TRUE, searched |-> FALSE]
                 ELSE LET i == find_path_for_size_internal(tm, start_world, goal_world, size,
                                                           r.cache, now)
                      IN  [path |-> i.path,
                           cache |-> cache_path(i.cache, start_tile.tile, goal_tile.tile, size,
                                                i.path, tm, now),
                           hit |-> FALSE, searched |-> TRUE]

(***************************************************************************)
(* State.                                                                  *)
(*   terrain_map      the shared TerrainMap resource                       *)
(*   terrain_changes  TerrainChanges::changed_tiles                        *)
(*   cache            the PathfindingCache (GlobalPathfindingCache.cache   *)
(*                    in the scheduler)                                    *)
(*   now              Instant::now(), in seconds                           *)
(*   calls            number of cache calls made so far                    *)
(*   last             the latest cache call: its name, key and result, and *)
(*                    for an invalidation the version before it and the    *)
(*                    cached keys whose footprint held a changed cell; for *)
(*                    a cached search its world positions and size and     *)
(*                    whether the search was run                           *)
(*   stored           per key, the path of the latest cache_path since the *)
(*                    latest invalidation or expiry sweep                  *)
(*   ever_stored      the keys cache_path was ever called with             *)
(*   entities         per entity its PathfindingRequest, PathfindingTask,  *)
(*                    PawnTarget and Transform components                  *)
(*   next_id          PathfindingRequestCounter::next_id                   *)
(*   ran              the systems that have run in the current frame       *)
(*   queues           per system, its deferred Commands of this frame      *)
(*   spawn_log        what spawn_cached_pathfinding_tasks did in its run   *)
(*                    of this frame, one record per request, in order      *)
(*   done_log         what handle_completed_cached_pathfinding polled      *)
(*                    to completion in its run of this frame               *)
(*   submitted        number of PathfindingRequests inserted so far; the   *)
(*                    n-th has identity rid = n                            *)
(*   edits            number of terrain edits made so far                  *)
(*   consumed         identities of the requests processed so far          *)
(*   origin           per cache key, the task whose result the scheduler   *)
(*                    stored last: its request, the terrain version at its *)
(*                    dispatch and the number of terrain edits made when   *)
(*                    the result was stored; for a request outside the     *)
(*                    grid, which has no cache key, the same per start,    *)
(*                    goal and size of the task polled last                *)
(***************************************************************************)
VARIABLES terrain_map, terrain_changes, cache, now, calls, last, stored, ever_stored,
          entities, next_id, ran, queues, spawn_log, done_log,
          submitted, edits, consumed, origin

apiVars == <<calls, last, stored, ever_stored>>

schedVars == <<entities, next_id, ran, queues, spawn_log, done_log,
               submitted, edits, consumed, origin>>

vars == <<terrain_map, terrain_changes, cache, now, apiVars, schedVars>>

(***************************************************************************)
(* Scheduler: components, deferred commands and systems.                   *)
(***************************************************************************)
NumEntities == 2
MaxRequests == 3
MaxEdits == 1

Entities == 1..NumEntities
Players == {1}
Hunters == Entities \ Players

\* PathfindingPriority
Low == 0
Normal == 1
High == 2
Critical == 3

SchedMap == TerrainMapNew(GridW, GridH, TileSize)

\* Where the pawns stand, where a click or a prey can be, the pawn size and
\* the cells the debug terrain edit is used on.
PawnPos == tile_to_world_coords(SchedMap, 0, 0)
GoalPts == {tile_to_world_coords(SchedMap, 2, 0), tile_to_world_coords(SchedMap, 2, 1)}
PreyPts == {tile_to_world_coords(SchedMap, 2, 0)}
PawnSize == 100
EditPts == {tile_to_world_coords(SchedMap, 2, 1)}

NoRequest ==
    [some |-> FALSE, start |-> <<0, 0>>, goal |-> <<0, 0>>, size |-> 0,
     priority |-> Normal, request_id |-> 0, rid |-> 0]

\* PathfindingRequest::new(..).with_priority(..); rid is its identity.
PathfindingRequest(start, goal, size, priority, rid) ==
    [some |-> TRUE, start |-> start, goal |-> goal, size |-> size,
     priority |-> priority, request_id |-> 0, rid |-> rid]

NoTask ==
    [some |-> FALSE, start |-> <<0, 0>>, goal |-> <<0, 0>>, size |-> 0, request_id |-> 0,
     terrain_clone |-> SchedMap, done |-> FALSE, result |-> NonePath, rid |-> 0,
     snapshot_version |-> 0]

NoTarget ==
    [some |-> FALSE, target_position |-> <<0, 0>>, path |-> <<>>, current_waypoint_index |-> 0]

\* PawnTarget::new
PawnTargetNew(target_position) ==
    [some |-> TRUE, target_position |-> target_position, path |-> <<target_position>>,
     current_waypoint_index |-> 0]

\* PawnTarget::set_path
set_path(target, pts) ==
    IF pts # <<>>
    THEN [target EXCEPT !.path = pts, !.current_waypoint_index = 0,
                        !.target_position = pts[Len(pts)]]
    ELSE target

\* self.path.len() - 1 on usize.  On an empty path the subtraction overflows:
\* a build with overflow checks panics, one without them wraps to usize::MAX
\* (wrapped, above every index).
len_minus_one(path) ==
    IF Len(path) > 0
    THEN {[panicked |-> FALSE, wrapped |-> FALSE, value |-> Len(path) - 1]}
    ELSE {[panicked |-> TRUE, wrapped |-> FALSE, value |-> 0],
          [panicked |-> FALSE, wrapped |-> TRUE, value |-> 0]}

\* PawnTarget::advance_waypoint, one outcome per outcome of the subtraction.
advance_waypoint(target) ==
    {[panicked |-> l.panicked,
      target |-> IF ~l.panicked /\ (l.wrapped \/ target.current_waypoint_index < l.value)
                 THEN [target EXCEPT !.current_waypoint_index = @ + 1]
                 ELSE target] : l \in len_minus_one(target.path)}

\* PawnTarget::is_at_destination, one outcome per outcome of the subtraction.
is_at_destination(target) ==
    {[panicked |-> l.panicked,
      result |-> ~l.panicked /\ ~l.wrapped /\ target.current_waypoint_index >= l.value] :
        l \in len_minus_one(target.path)}

\* PawnTarget::reset
reset(target) ==
    [target EXCEPT !.path = <<>>, !.current_waypoint_index = 0, !.target_position = <<0, 0>>]

NewEntity == [alive |-> TRUE, transform |-> TRUE, request |-> NoRequest, task |-> NoTask,
              target |-> NoTarget]

\* PathfindingRequestCounter::next_id, as [id, counter].
next_id_of(counter) == [id |-> counter, counter |-> counter + 1]

(***************************************************************************)
(* Deferred commands.  A command is [op, e, request, task, target].        *)
(***************************************************************************)
Cmd(op, e) == [op |-> op, e |-> e, request |-> NoRequest, task |-> NoTask, target |-> NoTarget]

\* One command applied to the world; commands on a despawned entity are dropped.
ApplyCmd(ents, c) ==
    IF ~ents[c.e].alive THEN ents
    ELSE CASE c.op = "remove_request" -> [ents EXCEPT ![c.e].request = NoRequest]
           [] c.op = "insert_request" -> [ents EXCEPT ![c.e].request = c.request]
           [] c.op = "remove_task" -> [ents EXCEPT ![c.e].task = NoTask]
           [] c.op = "insert_task" -> [ents EXCEPT ![c.e].task = c.task]
           [] c.op = "insert_target" -> [ents EXCEPT ![c.e].target = c.target]
           [] c.op = "despawn" ->
                 [ents EXCEPT ![c.e] = [alive |-> FALSE, transform |-> FALSE,
                                        request |-> NoRequest, task |-> NoTask,
                                        target |-> NoTarget]]

RECURSIVE ApplyCmds(_, _, _)
ApplyCmds(ents, cmds, i) ==
    IF i > Len(cmds) THEN ents
    ELSE Only({ApplyCmds(ents2, cmds, i + 1) : ents2 \in {ApplyCmd(ents, cmds[i])}})

Systems ==
    {"handle_player_input", "hunt_solo_ai_system", "spawn_cached_pathfinding_tasks",
     "handle_completed_cached_pathfinding", "cleanup_stale_pathfinding",
     "update_terrain_visuals"}

\* Each frame runs every system once; these are the ones that act on their
\* own, the other two act when a click or a hunt gives them something to do.
Mandatory ==
    {"spawn_cached_pathfinding_tasks", "handle_completed_cached_pathfinding",
     "cleanup_stale_pathfinding", "update_terrain_visuals"}

NoQueues == [sys \in Systems |-> <<>>]

\* Systems that share no resource with any other system: where they run in
\* the frame makes no difference, so they run at its start.
Isolated == {"cleanup_stale_pathfinding", "hunt_solo_ai_system"}

\* A system runs once per frame.
Runs(sys) ==
    /\ sys \notin ran
    /\ IF sys \in Isolated THEN ran \subseteq Isolated ELSE (Isolated \cap Mandatory) \subseteq ran

(***************************************************************************)
(* Orders in which a query can hand out a set of entities.                 *)
(***************************************************************************)
Orders(S) ==
    {o \in [1..Cardinality(S) -> S] : \A i, j \in 1..Cardinality(S) : i # j => o[i] # o[j]}

\* A sort with the comparison the other way round: lowest priority first.
SortedLowestFirst(ents, o) ==
    \A i, j \in DOMAIN o : i < j => ents[o[i]].request.priority <= ents[o[j]].request.priority

\* No sort at all: the query's own order.
Unsorted(ents, o) == TRUE

\* requests.sort_by(|a, b| b.1.priority.cmp(&a.1.priority)): the orders of
\* the pending entities that the stable sort can produce.
SortedByPriority(ents, o) ==
    \A i, j \in DOMAIN o : i < j => ents[o[i]].request.priority >= ents[o[j]].request.priority

(***************************************************************************)
(* spawn_cached_pathfinding_tasks                                          *)
(***************************************************************************)
\* The body of the for loop for one request; st is [cache, counter, cmds, log].
SpawnOne(st, e, request, tm, t) ==
    LET n == next_id_of(st.counter)
        start_tile == world_to_tile_coords(tm, request.start[1], request.start[2])
        goal_tile == world_to_tile_coords(tm, request.goal[1], request.goal[2])
        looked == start_tile.some /\ goal_tile.some
        task == [some |-> TRUE, start |-> request.start, goal |-> request.goal,
                 size |-> request.size, request_id |-> n.id, terrain_clone |-> tm,
                 done |-> FALSE, result |-> NonePath, rid |-> request.rid,
                 snapshot_version |-> st.cache.terrain_version]
        key == PathCacheKey(start_tile.tile, goal_tile.tile, request.size)
        entry(r) ==
            [e |-> e, rid |-> request.rid, request_id |-> n.id,
             priority |-> request.priority, start |-> request.start,
             goal |-> request.goal, size |-> request.size,
             hit |-> r.hit, path |-> r.path,
             version |-> st.cache.terrain_version,
             snapshot_version |-> IF r.hit /\ key \in DOMAIN origin
                                  THEN origin[key].snapshot_version ELSE 0,
             edits |-> edits,
             pending |-> terrain_changes # <<>>,
             cached_edits |-> IF r.hit /\ key \in DOMAIN origin
                              THEN origin[key].edits ELSE 0,
             looked |-> looked,
             repeated |-> LET w == [start |-> request.start, goal |-> request.goal,
                                    size |-> request.size]
                          IN  /\ w \in DOMAIN origin
                              /\ origin[w].snapshot_version = st.cache.terrain_version]
        cmds(r) ==
            IF r.hit
            THEN IF r.path.some
                 THEN << Cmd("remove_request", e),
                         [Cmd("insert_target", e) EXCEPT
                             !.target = set_path(PawnTargetNew(request.goal), r.path.pts)] >>
                 ELSE << Cmd("remove_request", e) >>
            ELSE << Cmd("remove_request", e), [Cmd("insert_task", e) EXCEPT !.task = task] >>
    IN  Only({ [cache |-> r.cache, counter |-> n.counter, cmds |-> st.cmds \o cmds(r),
                log |-> Append(st.log, entry(r))] :
               r \in {IF looked
                      THEN get_path(st.cache, start_tile.tile, goal_tile.tile, request.size, t)
                      ELSE [cache |-> st.cache, hit |-> FALSE, path |-> NonePath]} })

\* The for loop: the state after one request is the state before the next.
RECURSIVE SpawnLoop(_, _, _, _, _, _)
SpawnLoop(st, ents, order, i, tm, t) ==
    IF i > Len(order) THEN st
    ELSE Only({SpawnLoop(st2, ents, order, i + 1, tm, t) :
                  st2 \in {SpawnOne(st, order[i], ents[order[i]].request, tm, t)}})

\* The request query without its Without<PathfindingTask> filter.
WithRequest(ents) == {e \in Entities : ents[e].alive /\ ents[e].request.some}

\* Query<(Entity, &PathfindingRequest), Without<PathfindingTask>>
Pending(ents) == {e \in Entities : ents[e].alive /\ ents[e].request.some /\ ~ents[e].task.some}

spawn_cached_pathfinding_tasks ==
    /\ Runs("spawn_cached_pathfinding_tasks")
    /\ \E order \in Orders(Pending(entities)) :
          /\ SortedByPriority(entities, order)
          /\ \E st \in {SpawnLoop([cache |-> cache, counter |-> next_id, cmds |-> <<>>,
                                     log |-> <<>>],
                                    entities, order, 1, terrain_map, now)} :
                /\ cache' = st.cache
                /\ next_id' = st.counter
                /\ queues' = [queues EXCEPT !["spawn_cached_pathfinding_tasks"] = st.cmds]
                /\ spawn_log' = st.log
                /\ consumed' = consumed \cup {st.log[i].rid : i \in DOMAIN st.log}
    /\ ran' = ran \cup {"spawn_cached_pathfinding_tasks"}
    /\ UNCHANGED <<terrain_map, terrain_changes, now, apiVars, entities, done_log,
                   submitted, edits, origin>>

(***************************************************************************)
(* The worker pool: a dispatched search runs to completion on its clone.   *)
(***************************************************************************)
\* The grids the debug edit can produce, and the searches a pawn can ask
\* for on them, computed once.
RECURSIVE EditedMaps(_, _)
EditedMaps(maps, n) ==
    IF n = 0 THEN maps
    ELSE EditedMaps(maps \cup {set_tile_at_world_pos(tm, pt[1], pt[2], t, <<>>).tm :
                                  tm \in maps, pt \in EditPts, t \in {Dirt, Stone}}, n - 1)

SearchMaps == EditedMaps({SchedMap}, Cardinality(EditPts))

\* [map, goal, path] for every search a pawn can ask for.
SearchTable ==
    {[tm |-> tm, goal |-> g, path |-> find_path_for_size(tm, PawnPos, g, PawnSize)] :
        tm \in SearchMaps, g \in GoalPts}

\* find_path_for_size for a pawn, read from the table where it has it.
PathSearch(tm, start, goal, size) ==
    IF start = PawnPos /\ size = PawnSize /\ \E r \in SearchTable : r.tm = tm /\ r.goal = goal
    THEN (CHOOSE r \in SearchTable : r.tm = tm /\ r.goal = goal).path
    ELSE find_path_for_size(tm, start, goal, size)

\* A worker that searches the shared grid as it is when the search ends.
TaskResultOnSharedGrid(task) == PathSearch(terrain_map, task.start, task.goal, task.size)

\* The async block of the task: find_path_for_size on terrain_clone.
TaskResult(task) == PathSearch(task.terrain_clone, task.start, task.goal, task.size)

WorkerRuns(e) ==
    /\ entities[e].alive /\ entities[e].task.some /\ ~entities[e].task.done
    /\ entities' = [entities EXCEPT ![e].task.done = TRUE,
                                    ![e].task.result = TaskResult(entities[e].task)]
    /\ UNCHANGED <<terrain_map, terrain_changes, cache, now, apiVars, next_id, ran, queues,
                   spawn_log, done_log, submitted, edits, consumed, origin>>

(***************************************************************************)
(* handle_completed_cached_pathfinding                                     *)
(***************************************************************************)
\* A completion handler that stores found paths only, not a None result.
CompleteOneStoringFound(st, e, task, tm, t) ==
    LET start_tile == world_to_tile_coords(tm, task.start[1], task.start[2])
        goal_tile == world_to_tile_coords(tm, task.goal[1], task.goal[2])
        cache2 == IF start_tile.some /\ goal_tile.some /\ task.result.some
                  THEN cache_path(st.cache, start_tile.tile, goal_tile.tile, task.size,
                                  task.result, tm, t)
                  ELSE st.cache
        origin2 == IF start_tile.some /\ goal_tile.some
                   THEN Put(st.origin, PathCacheKey(start_tile.tile, goal_tile.tile, task.size),
                            [rid |-> task.rid, snapshot_version |-> task.snapshot_version,
                             edits |-> edits])
                   ELSE Put(st.origin,
                            [start |-> task.start, goal |-> task.goal, size |-> task.size],
                            [rid |-> task.rid, snapshot_version |-> task.snapshot_version,
                             edits |-> edits])
        cmds == IF task.result.some
                THEN << Cmd("remove_task", e),
                        [Cmd("insert_target", e) EXCEPT
                            !.target = set_path(PawnTargetNew(task.goal), task.result.pts)] >>
                ELSE << Cmd("remove_task", e) >>
    IN  [cache |-> cache2, cmds |-> st.cmds \o cmds, origin |-> origin2,
         log |-> Append(st.log, [e |-> e, rid |-> task.rid, start |-> task.start,
                                 goal |-> task.goal, size |-> task.size,
                                 result |-> task.result])]

\* A completion handler that leaves the task of a None result in place.
CompleteOneKeepingFailed(st, e, task, tm, t) ==
    LET start_tile == world_to_tile_coords(tm, task.start[1], task.start[2])
        goal_tile == world_to_tile_coords(tm, task.goal[1], task.goal[2])
        cache2 == IF start_tile.some /\ goal_tile.some
                  THEN cache_path(st.cache, start_tile.tile, goal_tile.tile, task.size,
                                  task.result, tm, t)
                  ELSE st.cache
        origin2 == IF start_tile.some /\ goal_tile.some
                   THEN Put(st.origin, PathCacheKey(start_tile.tile, goal_tile.tile, task.size),
                            [rid |-> task.rid, snapshot_version |-> task.snapshot_version,
                             edits |-> edits])
                   ELSE Put(st.origin,
                            [start |-> task.start, goal |-> task.goal, size |-> task.size],
                            [rid |-> task.rid, snapshot_version |-> task.snapshot_version,
                             edits |-> edits])
        cmds == IF task.result.some
                THEN << Cmd("remove_task", e),
                        [Cmd("insert_target", e) EXCEPT
                            !.target = set_path(PawnTargetNew(task.goal), task.result.pts)] >>
                ELSE <<>>
    IN  [cache |-> cache2, cmds |-> st.cmds \o cmds, origin |-> origin2,
         log |-> Append(st.log, [e |-> e, rid |-> task.rid, start |-> task.start,
                                 goal |-> task.goal, size |-> task.size,
                                 result |-> task.result])]

\* A completion handler that inserts a PawnTarget whatever the result.
CompleteOneTargetingAlways(st, e, task, tm, t) ==
    LET start_tile == world_to_tile_coords(tm, task.start[1], task.start[2])
        goal_tile == world_to_tile_coords(tm, task.goal[1], task.goal[2])
        cache2 == IF start_tile.some /\ goal_tile.some
                  THEN cache_path(st.cache, start_tile.tile, goal_tile.tile, task.size,
                                  task.result, tm, t)
                  ELSE st.cache
        origin2 == IF start_tile.some /\ goal_tile.some
                   THEN Put(st.origin, PathCacheKey(start_tile.tile, goal_tile.tile, task.size),
                            [rid |-> task.rid, snapshot_version |-> task.snapshot_version,
                             edits |-> edits])
                   ELSE Put(st.origin,
                            [start |-> task.start, goal |-> task.goal, size |-> task.size],
                            [rid |-> task.rid, snapshot_version |-> task.snapshot_version,
                             edits |-> edits])
        cmds == << Cmd("remove_task", e),
                   [Cmd("insert_target", e) EXCEPT
                       !.target = set_path(PawnTargetNew(task.goal), task.result.pts)] >>
    IN  [cache |-> cache2, cmds |-> st.cmds \o cmds, origin |-> origin2,
         log |-> Append(st.log, [e |-> e, rid |-> task.rid, start |-> task.start,
                                 goal |-> task.goal, size |-> task.size,
                                 result |-> task.result])]

\* The body of the for loop for one task whose poll returned a result;
\* st is [cache, cmds, log, origin].
CompleteOne(st, e, task, tm, t) ==
    LET start_tile == world_to_tile_coords(tm, task.start[1], task.start[2])
        goal_tile == world_to_tile_coords(tm, task.goal[1], task.goal[2])
        cache2 == IF start_tile.some /\ goal_tile.some
                  THEN cache_path(st.cache, start_tile.tile, goal_tile.tile, task.size,
                                  task.result, tm, t)
                  ELSE st.cache
        origin2 == IF start_tile.some /\ goal_tile.some
                   THEN Put(st.origin, PathCacheKey(start_tile.tile, goal_tile.tile, task.size),
                            [rid |-> task.rid, snapshot_version |-> task.snapshot_version,
                             edits |-> edits])
                   ELSE Put(st.origin,
                            [start |-> task.start, goal |-> task.goal, size |-> task.size],
                            [rid |-> task.rid, snapshot_version |-> task.snapshot_version,
                             edits |-> edits])
        cmds == IF task.result.some
                THEN << Cmd("remove_task", e),
                        [Cmd("insert_target", e) EXCEPT
                            !.target = set_path(PawnTargetNew(task.goal), task.result.pts)] >>
                ELSE << Cmd("remove_task", e) >>
    IN  [cache |-> cache2, cmds |-> st.cmds \o cmds, origin |-> origin2,
         log |-> Append(st.log, [e |-> e, rid |-> task.rid, start |-> task.start,
                                 goal |-> task.goal, size |-> task.size,
                                 result |-> task.result])]

\* A for loop that waits for each task's result instead of polling once.
RECURSIVE CompleteLoopBlocking(_, _, _, _, _, _)
CompleteLoopBlocking(st, ents, order, i, tm, t) ==
    IF i > Len(order) THEN st
    ELSE Only({CompleteLoopBlocking(st2, ents, order, i + 1, tm, t) :
                  st2 \in {CompleteOne(st, order[i],
                                       IF ents[order[i]].task.done
                                       THEN ents[order[i]].task
                                       ELSE [ents[order[i]].task EXCEPT
                                                !.done = TRUE,
                                                !.result = TaskResult(ents[order[i]].task)],
                                       tm, t)}})

\* The for loop over the tasks: a task whose poll returns nothing is left.
RECURSIVE CompleteLoop(_, _, _, _, _, _)
CompleteLoop(st, ents, order, i, tm, t) ==
    IF i > Len(order) THEN st
    ELSE Only({CompleteLoop(st2, ents, order, i + 1, tm, t) :
                  st2 \in {IF ents[order[i]].task.done
                           THEN CompleteOne(st, order[i], ents[order[i]].task, tm, t)
                           ELSE st}})

WithTask(ents) == {e \in Entities : ents[e].alive /\ ents[e].task.some}

handle_completed_cached_pathfinding ==
    /\ Runs("handle_completed_cached_pathfinding")
    /\ \E order \in Orders(WithTask(entities)) :
          \E st \in {CompleteLoop([cache |-> cache, cmds |-> <<>>, log |-> <<>>,
                                     origin |-> origin],
                                    entities, order, 1, terrain_map, now)} :
             /\ cache' = st.cache
             /\ origin' = st.origin
             /\ queues' = [queues EXCEPT !["handle_completed_cached_pathfinding"] = st.cmds]
             /\ done_log' = st.log
    /\ ran' = ran \cup {"handle_completed_cached_pathfinding"}
    /\ UNCHANGED <<terrain_map, terrain_changes, now, apiVars, entities, next_id,
                   spawn_log, submitted, edits, consumed>>

(***************************************************************************)
(* cleanup_stale_pathfinding                                               *)
(***************************************************************************)
\* A sweep that looks at the request query only.
StaleRequestsOnly(ents) ==
    {e \in Entities : ents[e].alive /\ ~ents[e].transform /\ ents[e].request.some}

Stale(ents) ==
    {e \in Entities : ents[e].alive /\ ~ents[e].transform
                      /\ (ents[e].request.some \/ ents[e].task.some)}

RECURSIVE DespawnAll(_)
DespawnAll(S) ==
    IF S = {} THEN <<>>
    ELSE LET e == CHOOSE x \in S : TRUE IN <<Cmd("despawn", e)>> \o DespawnAll(S \ {e})

cleanup_stale_pathfinding ==
    /\ Runs("cleanup_stale_pathfinding")
    /\ queues' = [queues EXCEPT !["cleanup_stale_pathfinding"] = DespawnAll(Stale(entities))]
    /\ ran' = ran \cup {"cleanup_stale_pathfinding"}
    /\ UNCHANGED <<terrain_map, terrain_changes, cache, now, apiVars, entities, next_id,
                   spawn_log, done_log, submitted, edits, consumed, origin>>

(***************************************************************************)
(* update_terrain_visuals: drains and clears the change set.               *)
(***************************************************************************)
update_terrain_visuals ==
    /\ Runs("update_terrain_visuals")
    /\ terrain_changes' = <<>>
    /\ ran' = ran \cup {"update_terrain_visuals"}
    /\ UNCHANGED <<terrain_map, cache, now, apiVars, entities, next_id, queues,
                   spawn_log, done_log, submitted, edits, consumed, origin>>

(***************************************************************************)
(* Callers.                                                                *)
(***************************************************************************)
\* handle_player_input, right click: a Critical request from the player's
\* position to the clicked cell centre.
PlayerRequests(e, goal) ==
    /\ Runs("handle_player_input")
    /\ e \in Players /\ entities[e].alive /\ entities[e].transform
    /\ submitted < MaxRequests
    /\ submitted' = submitted + 1
    /\ queues' = [queues EXCEPT !["handle_player_input"] =
                     << [Cmd("insert_request", e) EXCEPT !.request =
                            PathfindingRequest(PawnPos, goal, PawnSize, Critical, submitted + 1)] >>]
    /\ ran' = ran \cup {"handle_player_input"}
    /\ UNCHANGED <<terrain_map, terrain_changes, cache, now, apiVars, entities, next_id,
                   spawn_log, done_log, edits, consumed, origin>>

\* handle_player_input, middle click: the debug terrain edit toggles the
\* clicked cell between Stone and Dirt and records the change.
PlayerEditsTerrain(pt) ==
    /\ Runs("handle_player_input")
    /\ edits < MaxEdits
    /\ edits' = edits + 1
    /\ LET cur == get_terrain_at_world_pos(terrain_map, pt[1], pt[2])
           new_terrain == IF is_passable(cur.terrain) THEN Stone ELSE Dirt
           r == set_tile_at_world_pos(terrain_map, pt[1], pt[2], new_terrain, terrain_changes)
       IN  /\ cur.some
           /\ terrain_map' = r.tm
           /\ terrain_changes' = r.changes
    /\ ran' = ran \cup {"handle_player_input"}
    /\ UNCHANGED <<cache, now, apiVars, entities, next_id, queues, spawn_log, done_log,
                   submitted, consumed, origin>>

\* hunt_solo_ai_system: a hunter without a PathfindingRequest that needs a
\* new path asks for one, at High priority, towards its prey.
NeedsNewPath(target, goal) ==
    ~target.some \/ target.target_position # goal \/ target.path = <<>>

HunterRequests(e, goal) ==
    /\ Runs("hunt_solo_ai_system")
    /\ e \in Hunters /\ entities[e].alive /\ entities[e].transform
    /\ ~entities[e].request.some
    /\ NeedsNewPath(entities[e].target, goal)
    /\ submitted < MaxRequests
    /\ submitted' = submitted + 1
    /\ queues' = [queues EXCEPT !["hunt_solo_ai_system"] =
                     << [Cmd("insert_request", e) EXCEPT !.request =
                            PathfindingRequest(PawnPos, goal, PawnSize, High, submitted + 1)] >>]
    /\ ran' = ran \cup {"hunt_solo_ai_system"}
    /\ UNCHANGED <<terrain_map, terrain_changes, cache, now, apiVars, entities, next_id,
                   spawn_log, done_log, edits, consumed, origin>>

(***************************************************************************)
(* End of frame: the deferred commands of each system are applied, one     *)
(* system after another, in an order the schedule fixes.                   *)
(***************************************************************************)
RECURSIVE ApplyDeferred(_, _, _, _)
ApplyDeferred(ents, qs, order, i) ==
    IF i > Len(order) THEN ents
    ELSE Only({ApplyDeferred(ents2, qs, order, i + 1) :
                  ents2 \in {ApplyCmds(ents, qs[order[i]], 1)}})

EndFrame ==
    /\ Mandatory \subseteq ran
    /\ \E order \in Orders({sys \in Systems : queues[sys] # <<>>}) :
          entities' = ApplyDeferred(entities, queues, order, 1)
    /\ queues' = NoQueues
    /\ ran' = {}
    /\ spawn_log' = <<>>
    /\ done_log' = <<>>
    /\ UNCHANGED <<terrain_map, terrain_changes, cache, now, apiVars, next_id,
                   submitted, edits, consumed, origin>>

SchedInit ==
    /\ entities = [e \in Entities |-> NewEntity]
    /\ next_id = 0
    /\ ran = {}
    /\ queues = NoQueues
    /\ spawn_log = <<>>
    /\ done_log = <<>>
    /\ submitted = 0
    /\ edits = 0
    /\ consumed = {}
    /\ origin = EmptyMap

(***************************************************************************)
(* The cache driven through its public API, as the cache tests drive it.   *)
(***************************************************************************)
MaxCalls == 4
MaxChanges == 1
MaxClock == 2
ClockStep == 16

CacheStarts == {<<0, 0>>}
CacheGoals == {<<2, 0>>}
CacheSizes == {0, 100, 101}
ChangeCells == {<<0, 0>>, <<2, 0>>}

CacheMap == TerrainMapNew(GridW, GridH, TileSize)

\* Results a caller may store: no path, and two routes of cell centres.
CachePaths ==
    {NonePath,
     SomePath(<<tile_to_world_coords(CacheMap, 0, 0)>>),
     SomePath(<<tile_to_world_coords(CacheMap, 0, 0), tile_to_world_coords(CacheMap, 1, 0),
                tile_to_world_coords(CacheMap, 2, 0)>>)}

CacheKeys == {PathCacheKey(s, g, z) : s \in CacheStarts, g \in CacheGoals, z \in CacheSizes}

NotStored == [some |-> FALSE, path |-> NonePath]

NoCall ==
    [op |-> "none", key |-> PathCacheKey(<<0, 0>>, <<0, 0>>, 0), hit |-> FALSE,
     path |-> NonePath, version_before |-> 0, touched |-> {},
     start |-> <<0, 0>>, goal |-> <<0, 0>>, size |-> 0, searched |-> FALSE,
     id |-> <<0, 0, 0, 0>>, passability_before |-> {}, h |-> 0, panicked |-> FALSE]

ChangedCells(changed_tiles) == {<<changed_tiles[i][1], changed_tiles[i][2]>> : i \in DOMAIN changed_tiles}

\* The cached keys whose footprint holds a cell of the change set.
Touched(c, changed_tiles) ==
    {k \in DOMAIN c.path_cache :
        c.path_cache[k].affected_tiles \cap ChangedCells(changed_tiles) # {}}

ApiInit ==
    /\ calls = 0
    /\ last = NoCall
    /\ stored = [k \in CacheKeys |-> NotStored]
    /\ ever_stored = {}

InitCache ==
    /\ terrain_map = CacheMap
    /\ terrain_changes = <<>>
    /\ cache = PathfindingCacheNew
    /\ now = 0
    /\ ApiInit
    /\ SchedInit

CallGetPath(s, g, z) ==
    /\ calls < MaxCalls
    /\ calls' = calls + 1
    /\ LET r == get_path(cache, s, g, z, now)
       IN  /\ cache' = r.cache
           /\ last' = [NoCall EXCEPT !.op = "get_path", !.key = PathCacheKey(s, g, z),
                                     !.hit = r.hit, !.path = r.path]
    /\ UNCHANGED <<terrain_map, terrain_changes, now, stored, ever_stored, schedVars>>

CallCachePath(s, g, z, p) ==
    /\ calls < MaxCalls
    /\ calls' = calls + 1
    /\ cache' = cache_path(cache, s, g, z, p, terrain_map, now)
    /\ last' = [NoCall EXCEPT !.op = "cache_path", !.key = PathCacheKey(s, g, z), !.path = p]
    /\ stored' = [stored EXCEPT ![PathCacheKey(s, g, z)] = [some |-> TRUE, path |-> p]]
    /\ ever_stored' = ever_stored \cup {PathCacheKey(s, g, z)}
    /\ UNCHANGED <<terrain_map, terrain_changes, now, schedVars>>

CallAddChange(c) ==
    /\ Len(terrain_changes) < MaxChanges
    /\ terrain_changes' = add_change(terrain_changes, c[1], c[2], Stone)
    /\ UNCHANGED <<terrain_map, cache, now, calls, last, stored, ever_stored, schedVars>>

CallClearChanges ==
    /\ terrain_changes # <<>>
    /\ terrain_changes' = <<>>
    /\ UNCHANGED <<terrain_map, cache, now, calls, last, stored, ever_stored, schedVars>>

\* An invalidation pass that clears the change set it has processed.
CallInvalidateClearing ==
    /\ calls < MaxCalls
    /\ calls' = calls + 1
    /\ cache' = invalidate_from_terrain_changes(cache, terrain_changes)
    /\ terrain_changes' = <<>>
    /\ last' = [NoCall EXCEPT !.op = "invalidate_from_terrain_changes",
                              !.version_before = cache.terrain_version,
                              !.touched = Touched(cache, terrain_changes),
                              !.passability_before = DOMAIN cache.passability_cache]
    /\ stored' = IF terrain_changes = <<>> THEN stored ELSE [k \in CacheKeys |-> NotStored]
    /\ UNCHANGED <<terrain_map, now, ever_stored, schedVars>>

\* invalidate_from_terrain_changes takes &TerrainChanges: the set is read only.
CallInvalidate ==
    /\ calls < MaxCalls
    /\ calls' = calls + 1
    /\ cache' = invalidate_from_terrain_changes(cache, terrain_changes)
    /\ last' = [NoCall EXCEPT !.op = "invalidate_from_terrain_changes",
                              !.version_before = cache.terrain_version,
                              !.touched = Touched(cache, terrain_changes),
                              !.passability_before = DOMAIN cache.passability_cache]
    /\ stored' = IF terrain_changes = <<>> THEN stored ELSE [k \in CacheKeys |-> NotStored]
    /\ UNCHANGED <<terrain_map, terrain_changes, now, ever_stored, schedVars>>

CallCleanupExpired ==
    /\ calls < MaxCalls
    /\ calls' = calls + 1
    /\ cache' = cleanup_expired_entries(cache, now)
    /\ last' = [NoCall EXCEPT !.op = "cleanup_expired_entries"]
    /\ stored' = [k \in CacheKeys |-> NotStored]
    /\ UNCHANGED <<terrain_map, terrain_changes, now, ever_stored, schedVars>>

AdvanceClock ==
    /\ now < MaxClock * ClockStep
    /\ now' = now + ClockStep
    /\ UNCHANGED <<terrain_map, terrain_changes, cache, calls, last, stored, ever_stored, schedVars>>

NextCache ==
    \/ \E s \in CacheStarts, g \in CacheGoals, z \in CacheSizes : CallGetPath(s, g, z)
    \/ \E s \in CacheStarts, g \in CacheGoals, z \in CacheSizes, p \in CachePaths :
          CallCachePath(s, g, z, p)
    \/ \E c \in ChangeCells : CallAddChange(c)
    \/ CallClearChanges
    \/ CallInvalidate
    \/ CallCleanupExpired
    \/ AdvanceClock

SpecCache == InitCache /\ [][NextCache]_vars

\* The whole public interface of the cache, the passability half included,
\* with change sets of several cells and a clock that reaches the expiry time
\* exactly.
MaxCellsChanged == 2
SweepStep == 15
MaxSweeps == 3

MaxApiCalls == 3

ApiSizes == {0, 100}
PassTiles == {<<0, 0>>}
PassSizes == {100}

CallGetPassability(t, z) ==
    /\ calls < MaxCalls
    /\ calls' = calls + 1
    /\ LET r == get_passability(cache, t[1], t[2], z, now)
       IN  /\ cache' = r.cache
           /\ last' = [NoCall EXCEPT !.op = "get_passability", !.start = t, !.size = z,
                                     !.hit = r.hit]
    /\ UNCHANGED <<terrain_map, terrain_changes, now, stored, ever_stored, schedVars>>

CallCachePassability(t, z, b) ==
    /\ calls < MaxCalls
    /\ calls' = calls + 1
    /\ cache' = cache_passability(cache, t[1], t[2], z, b, now)
    /\ last' = [NoCall EXCEPT !.op = "cache_passability", !.start = t, !.size = z]
    /\ UNCHANGED <<terrain_map, terrain_changes, now, stored, ever_stored, schedVars>>

CallAddChanges(c) ==
    /\ Len(terrain_changes) < MaxCellsChanged
    /\ terrain_changes' = add_change(terrain_changes, c[1], c[2], Stone)
    /\ UNCHANGED <<terrain_map, cache, now, calls, last, stored, ever_stored, schedVars>>

TimePasses ==
    /\ now < MaxSweeps * SweepStep
    /\ now' = now + SweepStep
    /\ UNCHANGED <<terrain_map, terrain_changes, cache, calls, last, stored, ever_stored, schedVars>>

NextCacheAll ==
    \/ \E s \in CacheStarts, g \in CacheGoals, z \in ApiSizes :
          calls < MaxApiCalls /\ CallGetPath(s, g, z)
    \/ \E s \in CacheStarts, g \in CacheGoals, z \in ApiSizes, p \in CachePaths :
          calls < MaxApiCalls /\ CallCachePath(s, g, z, p)
    \/ \E t \in PassTiles, z \in PassSizes :
          calls < MaxApiCalls /\ CallGetPassability(t, z)
    \/ \E t \in PassTiles, z \in PassSizes, b \in BOOLEAN :
          calls < MaxApiCalls /\ CallCachePassability(t, z, b)
    \/ calls < MaxApiCalls /\ CallInvalidate
    \/ calls < MaxApiCalls /\ CallCleanupExpired
    \/ \E c \in ChangeCells : CallAddChanges(c)
    \/ CallClearChanges
    \/ TimePasses

SpecCacheAll == InitCache /\ [][NextCacheAll]_vars

(***************************************************************************)
(* The cache with passability entries and footprints near to and far from  *)
(* the changed cells.  The passability half takes any i32 cell.            *)
(***************************************************************************)
MaxPassCalls == 3

FarTiles == {<<0, 0>>, <<3, 0>>, <<4, 0>>, <<3, 3>>, <<0, 4>>, <<7, 0>>}
FarChangeCells == {<<0, 0>>, <<7, 3>>}
FarSizes == {0, 100}

NextPassability ==
    \/ \E t \in FarTiles, z \in FarSizes, b \in BOOLEAN :
          calls < MaxPassCalls /\ CallCachePassability(t, z, b)
    \/ \E t \in FarTiles, z \in FarSizes :
          calls < MaxPassCalls /\ CallGetPassability(t, z)
    \/ \E s \in CacheStarts, g \in CacheGoals, z \in FarSizes, p \in CachePaths :
          calls < MaxPassCalls /\ CallCachePath(s, g, z, p)
    \/ \E s \in CacheStarts, g \in CacheGoals, z \in FarSizes :
          calls < MaxPassCalls /\ CallGetPath(s, g, z)
    \/ \E c \in FarChangeCells : CallAddChanges(c)
    \/ calls < MaxPassCalls /\ CallInvalidate

SpecPassability == InitCache /\ [][NextPassability]_vars

(***************************************************************************)
(* The grid driven through its public setters, as world generation and the *)
(* terrain tests drive it.                                                 *)
(***************************************************************************)
GridClasses == {Dirt, Stone}

\* The centre of every cell, and a point beyond the last column.
GridPts == {tile_to_world_coords(CacheMap, c[1], c[2]) : c \in Cells(GridW, GridH)}
              \cup {tile_to_world_coords(CacheMap, GridW, 0)}

CallSetTile(x, y, t) ==
    /\ calls < MaxCalls
    /\ calls' = calls + 1
    /\ terrain_map' = set_tile(terrain_map, x, y, t)
    /\ last' = [NoCall EXCEPT !.op = "set_tile"]
    /\ UNCHANGED <<terrain_changes, cache, now, stored, ever_stored, schedVars>>

CallSetTileAtWorldPos(pt, t) ==
    /\ calls < MaxCalls
    /\ calls' = calls + 1
    /\ LET r == set_tile_at_world_pos(terrain_map, pt[1], pt[2], t, terrain_changes)
       IN  /\ terrain_map' = r.tm
           /\ terrain_changes' = r.changes
           /\ last' = [NoCall EXCEPT !.op = "set_tile_at_world_pos", !.hit = r.ok]
    /\ UNCHANGED <<cache, now, stored, ever_stored, schedVars>>

NextGrid ==
    \/ \E x \in 0..GridW, y \in 0..(GridH - 1), t \in GridClasses : CallSetTile(x, y, t)
    \/ \E pt \in GridPts, t \in GridClasses : CallSetTileAtWorldPos(pt, t)
    \/ CallClearChanges

SpecGrid == InitCache /\ [][NextGrid]_vars

(***************************************************************************)
(* The cached search driven as the cache tests drive it, the cache being   *)
(* invalidated after every terrain edit.                                   *)
(***************************************************************************)
\* Query positions: the centre of cell (0,0) and a point of the same cell a
\* quarter tile from its upper edge; the centres of cells (2,0) and (2,1);
\* a point beyond the last column.
QueryStarts ==
    {tile_to_world_coords(CacheMap, 0, 0),
     <<tile_to_world_coords(CacheMap, 0, 0)[1], tile_to_world_coords(CacheMap, 0, 0)[2] + 8>>}

QueryGoals ==
    {tile_to_world_coords(CacheMap, 2, 0), tile_to_world_coords(CacheMap, 2, 1),
     tile_to_world_coords(CacheMap, GridW, 0)}

\* Two sizes of one size tier.
QuerySizes == {100, 105}

\* The cells the terrain edit is used on.
QueryEditPts == {tile_to_world_coords(CacheMap, 0, 1), tile_to_world_coords(CacheMap, 2, 0)}

QueryKey(tm, s, g, z) ==
    PathCacheKey(world_to_tile_coords(tm, s[1], s[2]).tile,
                 world_to_tile_coords(tm, g[1], g[2]).tile, z)

CallFindPathCached(s, g, z) ==
    /\ calls < MaxCalls
    /\ calls' = calls + 1
    /\ \E r \in {find_path_for_size_cached(terrain_map, s, g, z, cache, now)} :
          /\ cache' = r.cache
          /\ last' = [NoCall EXCEPT !.op = "find_path_for_size_cached",
                                    !.key = QueryKey(terrain_map, s, g, z),
                                    !.start = s, !.goal = g, !.size = z,
                                    !.hit = r.hit, !.searched = r.searched, !.path = r.path]
    /\ UNCHANGED <<terrain_map, terrain_changes, now, stored, ever_stored, schedVars>>

\* A terrain edit, the invalidation pass over its change set, and the clear.
CallEditInvalidated(pt) ==
    /\ edits < MaxEdits
    /\ edits' = edits + 1
    /\ \E r \in {set_tile_at_world_pos(terrain_map, pt[1], pt[2], Stone, terrain_changes)} :
          /\ terrain_map' = r.tm
          /\ cache' = invalidate_from_terrain_changes(cache, r.changes)
    /\ last' = [NoCall EXCEPT !.op = "invalidate_from_terrain_changes"]
    /\ UNCHANGED <<terrain_changes, now, calls, stored, ever_stored, entities, next_id, ran,
                   queues, spawn_log, done_log, submitted, consumed, origin>>

NextCached ==
    \/ \E s \in QueryStarts, g \in QueryGoals, z \in QuerySizes : CallFindPathCached(s, g, z)
    \/ \E pt \in QueryEditPts : CallEditInvalidated(pt)

SpecCached == InitCache /\ [][NextCached]_vars

(***************************************************************************)
(* The scheduler as the application wires it.                              *)
(***************************************************************************)
Init ==
    /\ terrain_map = SchedMap
    /\ terrain_changes = <<>>
    /\ cache = PathfindingCacheNew
    /\ now = 0
    /\ ApiInit
    /\ SchedInit

Next ==
    \/ \E e \in Entities, g \in GoalPts : PlayerRequests(e, g)
    \/ \E pt \in EditPts : PlayerEditsTerrain(pt)
    \/ \E e \in Entities, g \in PreyPts : HunterRequests(e, g)
    \/ spawn_cached_pathfinding_tasks
    \/ \E e \in Entities : WorkerRuns(e)
    \/ handle_completed_cached_pathfinding
    \/ cleanup_stale_pathfinding
    \/ update_terrain_visuals
    \/ EndFrame

Spec == Init /\ [][Next]_vars

\* update_pathfinding_cache, taken as the invalidation pass of the
\* scheduler's cache that the design describes.  A run that finds the
\* change set empty returns at once and is no step.
update_pathfinding_cache ==
    /\ Runs("update_pathfinding_cache")
    /\ terrain_changes # <<>>
    /\ cache' = invalidate_from_terrain_changes(cache, terrain_changes)
    /\ ran' = ran \cup {"update_pathfinding_cache"}
    /\ UNCHANGED <<terrain_map, terrain_changes, now, apiVars, entities, next_id, queues,
                   spawn_log, done_log, submitted, edits, consumed, origin>>

NextWired == Next \/ update_pathfinding_cache

SpecWired == Init /\ [][NextWired]_vars

(***************************************************************************)
(* A result stored and looked up between the same cells with sizes of      *)
(* equal and of different tiers, as test_cache_size_quantization does.     *)
(***************************************************************************)
MaxQuantCalls == 2

\* Sizes in hundredths: the test's 1.0, 1.01 and 2.0, sizes on both sides of
\* a rounding boundary, sizes around the clamp at 255, and a negative one.
QuantSizes == {-100, 0, 6, 7, 100, 101, 106, 107, 200, 3181, 3182, 3200, 4000}

QuantRoute ==
    SomePath(<<tile_to_world_coords(CacheMap, 0, 0), tile_to_world_coords(CacheMap, 1, 0),
               tile_to_world_coords(CacheMap, 2, 0)>>)

CallCachePathOfSize(z) ==
    /\ calls < MaxQuantCalls
    /\ calls' = calls + 1
    /\ cache' = cache_path(cache, <<0, 0>>, <<2, 0>>, z, QuantRoute, terrain_map, now)
    /\ last' = [NoCall EXCEPT !.op = "cache_path", !.key = PathCacheKey(<<0, 0>>, <<2, 0>>, z),
                              !.size = z, !.path = QuantRoute]
    /\ UNCHANGED <<terrain_map, terrain_changes, now, stored, ever_stored, schedVars>>

CallGetPathOfSize(z) ==
    /\ calls < MaxQuantCalls
    /\ calls' = calls + 1
    /\ \E r \in {get_path(cache, <<0, 0>>, <<2, 0>>, z, now)} :
          /\ cache' = r.cache
          /\ last' = [NoCall EXCEPT !.op = "get_path",
                                    !.key = PathCacheKey(<<0, 0>>, <<2, 0>>, z),
                                    !.size = z, !.hit = r.hit, !.path = r.path]
    /\ UNCHANGED <<terrain_map, terrain_changes, now, stored, ever_stored, schedVars>>

NextQuantize ==
    \/ \E z \in QuantSizes : CallCachePathOfSize(z)
    \/ \E z \in QuantSizes : CallGetPathOfSize(z)

SpecQuantize == InitCache /\ [][NextQuantize]_vars

(***************************************************************************)
(* The two coordinate conversions on grids of several sizes and tile       *)
(* sizes.                                                                  *)
(***************************************************************************)
MaxGridW == 4
MaxGridH == 3

CoordTileSizes == {1, 3, TileSize}

InitCoords ==
    /\ \E w \in 1..MaxGridW, h \in 1..MaxGridH, ts \in CoordTileSizes :
          terrain_map = TerrainMapNew(w, h, ts)
    /\ terrain_changes = <<>>
    /\ cache = PathfindingCacheNew
    /\ now = 0
    /\ ApiInit
    /\ SchedInit

\* world_to_tile_coords(tile_to_world_coords(x, y)); last.start is the cell
\* and last.goal the cell that comes back.
CallRoundTrip(x, y) ==
    /\ calls' = calls + 1
    /\ \E w \in {tile_to_world_coords_q(terrain_map, x, y)} :
       \E r \in {world_to_tile_coords_q(terrain_map, w[1], w[2], 2)} :
          last' = [NoCall EXCEPT !.op = "world_to_tile_coords", !.start = <<x, y>>,
                                 !.hit = r.some, !.goal = r.tile]
    /\ UNCHANGED <<terrain_map, terrain_changes, cache, now, stored, ever_stored, schedVars>>

NextCoords ==
    \E x \in 0..(MaxGridW - 1), y \in 0..(MaxGridH - 1) :
        /\ calls < MaxCalls
        /\ InBounds(terrain_map, x, y)
        /\ CallRoundTrip(x, y)

SpecCoords == InitCoords /\ [][NextCoords]_vars

(***************************************************************************)
(* The grid queried and set inside and outside its bounds.                 *)
(***************************************************************************)
MaxBoundsCalls == 3

\* A class index the class table has no entry for.
UnknownClass == 7

BoundsClasses == {Dirt, Stone, UnknownClass}

\* Cell centres of the grid and of the ring of cells around it, and the
\* points on the grid's left and right edge.
BoundsPts ==
    {tile_to_world_coords(CacheMap, x, y) : x \in (-1)..GridW, y \in (-1)..GridH}
       \cup {<<-((GridW * TileSize) \div 2), 0>>, <<(GridW * TileSize) \div 2, 0>>}

CallSetTileAt(x, y, t) ==
    /\ calls' = calls + 1
    /\ terrain_map' = set_tile(terrain_map, x, y, t)
    /\ last' = [NoCall EXCEPT !.op = "set_tile", !.start = <<x, y>>]
    /\ UNCHANGED <<terrain_changes, cache, now, stored, ever_stored, schedVars>>

CallSetTileAtWorldPosAt(pt, t) ==
    /\ calls' = calls + 1
    /\ \E r \in {set_tile_at_world_pos(terrain_map, pt[1], pt[2], t, terrain_changes)} :
          /\ terrain_map' = r.tm
          /\ terrain_changes' = r.changes
          /\ last' = [NoCall EXCEPT !.op = "set_tile_at_world_pos", !.start = pt,
                                    !.hit = r.ok]
    /\ UNCHANGED <<cache, now, stored, ever_stored, schedVars>>

CallIsTilePassable(tx, ty) ==
    /\ calls' = calls + 1
    /\ last' = [NoCall EXCEPT !.op = "is_tile_passable", !.start = <<tx, ty>>,
                              !.hit = is_tile_passable(terrain_map, tx, ty)]
    /\ UNCHANGED <<terrain_map, terrain_changes, cache, now, stored, ever_stored, schedVars>>

CallWorldToTileCoords(pt) ==
    /\ calls' = calls + 1
    /\ \E r \in {world_to_tile_coords(terrain_map, pt[1], pt[2])} :
          last' = [NoCall EXCEPT !.op = "world_to_tile_coords", !.start = pt,
                                 !.hit = r.some, !.goal = r.tile]
    /\ UNCHANGED <<terrain_map, terrain_changes, cache, now, stored, ever_stored, schedVars>>

CallIsPassableAtWorldPos(pt) ==
    /\ calls' = calls + 1
    /\ last' = [NoCall EXCEPT !.op = "is_passable_at_world_pos", !.start = pt,
                              !.hit = is_passable_at_world_pos(terrain_map, pt[1], pt[2])]
    /\ UNCHANGED <<terrain_map, terrain_changes, cache, now, stored, ever_stored, schedVars>>

NextBounds ==
    \/ \E x \in 0..GridW, y \in 0..GridH, t \in BoundsClasses :
          calls < MaxBoundsCalls /\ CallSetTileAt(x, y, t)
    \/ \E pt \in BoundsPts, t \in BoundsClasses :
          calls < MaxBoundsCalls /\ CallSetTileAtWorldPosAt(pt, t)
    \/ \E tx \in (-1)..GridW, ty \in (-1)..GridH :
          calls < MaxBoundsCalls /\ CallIsTilePassable(tx, ty)
    \/ \E pt \in BoundsPts : calls < MaxBoundsCalls /\ CallWorldToTileCoords(pt)
    \/ \E pt \in BoundsPts : calls < MaxBoundsCalls /\ CallIsPassableAtWorldPos(pt)

SpecBounds == InitCache /\ [][NextBounds]_vars

(***************************************************************************)
(* The uncached search on every grid of Dirt and Stone cells.              *)
(***************************************************************************)
MaxSearchCalls == 1

SearchGrids ==
    {[CacheMap EXCEPT !.tiles = tiles] : tiles \in [Cells(GridW, GridH) -> {Dirt, Stone}]}

\* The centre of every cell, two points of cell (0, 0) off its centre (a
\* quarter tile towards the next row, and a quarter tile towards the next
\* row and the next column), and the centre of a cell beyond the last column.
SearchPts ==
    {tile_to_world_coords(CacheMap, c[1], c[2]) : c \in Cells(GridW, GridH)}
       \cup {<<tile_to_world_coords(CacheMap, 0, 0)[1], tile_to_world_coords(CacheMap, 0, 0)[2] + 8>>,
             <<tile_to_world_coords(CacheMap, 0, 0)[1] + 8, tile_to_world_coords(CacheMap, 0, 0)[2] + 8>>,
             tile_to_world_coords(CacheMap, GridW, 0)}

\* A pawn of half a tile, one of a whole tile and one of two tiles.
SearchSizes == {50, PawnSize, 200}

InitSearch ==
    /\ terrain_map \in SearchGrids
    /\ terrain_changes = <<>>
    /\ cache = PathfindingCacheNew
    /\ now = 0
    /\ ApiInit
    /\ SchedInit

CallFindPath(st, g, z) ==
    /\ calls < MaxSearchCalls
    /\ calls' = calls + 1
    /\ \E r \in {find_path_for_size_traced(terrain_map, st, g, z)} :
          last' = [NoCall EXCEPT !.op = "find_path_for_size", !.start = st, !.goal = g,
                                 !.size = z, !.path = r.path, !.searched = r.searched]
    /\ UNCHANGED <<terrain_map, terrain_changes, cache, now, stored, ever_stored, schedVars>>

NextSearch == \E st \in SearchPts, g \in SearchPts, z \in SearchSizes : CallFindPath(st, g, z)

SpecSearch == InitSearch /\ [][NextSearch]_vars

(***************************************************************************)
(* The uncached search between cell centres for pawns wider than half a    *)
(* tile, on every grid of Dirt and Stone cells.                            *)
(***************************************************************************)
CornerSizes == {55, 60, PawnSize, 150}

CornerPts == {tile_to_world_coords(CacheMap, c[1], c[2]) : c \in Cells(GridW, GridH)}

NextCorner == \E st \in CornerPts, g \in CornerPts, z \in CornerSizes : CallFindPath(st, g, z)

SpecCorner == InitSearch /\ [][NextCorner]_vars

(***************************************************************************)
(* The clearance test at points of every grid of Dirt and Stone cells: the *)
(* centre of each cell, three points of it near its border, and the centre *)
(* of a cell beyond the last column.                                       *)
(***************************************************************************)
PointOffsets == {<<0, 0>>, <<12, 0>>, <<12, 12>>, <<-15, 0>>}

PointPts ==
    {<<tile_to_world_coords(CacheMap, c[1], c[2])[1] + o[1],
       tile_to_world_coords(CacheMap, c[1], c[2])[2] + o[2]>> :
         c \in Cells(GridW, GridH), o \in PointOffsets}
       \cup {tile_to_world_coords(CacheMap, GridW, 0)}

\* No size, a quarter tile, half a tile, and a whole tile.
PointSizes == {0, 25, 50, PawnSize}

CallIsPositionPassableForSize(pt, z) ==
    /\ calls < MaxSearchCalls
    /\ calls' = calls + 1
    /\ last' = [NoCall EXCEPT !.op = "is_position_passable_for_size", !.start = pt, !.size = z,
                              !.hit = is_position_passable_for_size(terrain_map, pt[1], pt[2], z)]
    /\ UNCHANGED <<terrain_map, terrain_changes, cache, now, stored, ever_stored, schedVars>>

NextPoint == \E pt \in PointPts, z \in PointSizes : CallIsPositionPassableForSize(pt, z)

SpecPoint == InitSearch /\ [][NextPoint]_vars

(***************************************************************************)
(* One PawnTarget, the component of entity 1, driven through its methods.  *)
(* A panic ends the run.                                                   *)
(***************************************************************************)
MaxTargetCalls == 5

TargetPositions == {<<0, 0>>, <<32, 16>>, <<-32, -16>>}

TargetPaths ==
    {<<>>, <<<<0, 16>>>>, <<<<0, 16>>, <<32, 16>>>>, <<<<-32, -16>>, <<0, 16>>, <<32, -16>>>>}

TargetCall(op) ==
    /\ calls < MaxTargetCalls
    /\ ~last.panicked
    /\ op # "new" => entities[1].target.some
    /\ calls' = calls + 1
    /\ UNCHANGED <<terrain_map, terrain_changes, cache, now, stored, ever_stored, next_id, ran,
                   queues, spawn_log, done_log, submitted, edits, consumed, origin>>

CallNew(p) ==
    /\ TargetCall("new")
    /\ entities' = [entities EXCEPT ![1].target = PawnTargetNew(p)]
    /\ last' = [NoCall EXCEPT !.op = "new", !.goal = p]

CallSetPath(pts) ==
    /\ TargetCall("set_path")
    /\ entities' = [entities EXCEPT ![1].target = set_path(@, pts)]
    /\ last' = [NoCall EXCEPT !.op = "set_path", !.path = SomePath(pts)]

CallAdvanceWaypoint ==
    /\ TargetCall("advance_waypoint")
    /\ \E r \in advance_waypoint(entities[1].target) :
          /\ entities' = [entities EXCEPT ![1].target = r.target]
          /\ last' = [NoCall EXCEPT !.op = "advance_waypoint", !.panicked = r.panicked]

CallIsAtDestination ==
    /\ TargetCall("is_at_destination")
    /\ \E r \in is_at_destination(entities[1].target) :
          last' = [NoCall EXCEPT !.op = "is_at_destination", !.hit = r.result,
                                 !.panicked = r.panicked]
    /\ UNCHANGED entities

CallReset ==
    /\ TargetCall("reset")
    /\ entities' = [entities EXCEPT ![1].target = reset(@)]
    /\ last' = [NoCall EXCEPT !.op = "reset"]

NextTarget ==
    \/ \E p \in TargetPositions : CallNew(p)
    \/ \E pts \in TargetPaths : CallSetPath(pts)
    \/ CallAdvanceWaypoint
    \/ CallIsAtDestination
    \/ CallReset

SpecTarget == InitCache /\ [][NextTarget]_vars

(***************************************************************************)
(* The heuristic closure of the search, applied to a node and a goal cell  *)
(* of a square of HeuristicSpan + 1 cells a side.                          *)
(***************************************************************************)
HeuristicSpan == 4

HeuristicCells == (0..HeuristicSpan) \X (0..HeuristicSpan)

\* One evaluation of the closure |&(x, y)| ... for node n with goal_tile g.
CallHeuristic(n, g) ==
    /\ calls < MaxSearchCalls
    /\ calls' = calls + 1
    /\ last' = [NoCall EXCEPT !.op = "heuristic", !.start = n, !.goal = g,
                              !.h = Heuristic(n, g)]
    /\ UNCHANGED <<terrain_map, terrain_changes, cache, now, stored, ever_stored, schedVars>>

NextHeuristic == \E n \in HeuristicCells, g \in HeuristicCells : CallHeuristic(n, g)

SpecHeuristic == InitCache /\ [][NextHeuristic]_vars

(***************************************************************************)
(* The uncached search across a wall with a gap one cell wide.  The wall   *)
(* is the middle row of a grid of GapW by GapH cells, Stone but for one    *)
(* cell; the start lies on one side of it and the goal on the other.       *)
(***************************************************************************)
GapW == 3
GapH == 7

GapGrids ==
    {[TerrainMapNew(GapW, GapH, TileSize) EXCEPT
         !.tiles = [c \in Cells(GapW, GapH) |->
                       IF c[2] = GapH \div 2 /\ c[1] # gap THEN Stone ELSE Dirt]] :
        gap \in 0..(GapW - 1)}

\* A pawn of half a tile and one of 2.2 tiles.
GapSizes == {50, 220}

InitGap ==
    /\ terrain_map \in GapGrids
    /\ terrain_changes = <<>>
    /\ cache = PathfindingCacheNew
    /\ now = 0
    /\ ApiInit
    /\ SchedInit

NextGap ==
    \E sx \in 0..(GapW - 1), gx \in 0..(GapW - 1),
       sy \in 0..(GapH \div 2 - 1), gy \in (GapH \div 2 + 1)..(GapH - 1), z \in GapSizes :
        CallFindPath(tile_to_world_coords(terrain_map, sx, sy),
                     tile_to_world_coords(terrain_map, gx, gy), z)

SpecGap == InitGap /\ [][NextGap]_vars

(***************************************************************************)
(* The request counter at its full width.  A u64 is four 16-bit limbs,     *)
(* lowest first; next_id_of above is the same function on the small        *)
(* counters of the scheduler.                                              *)
(***************************************************************************)
LimbBase == 65536
MaxIssued == 24

U64(n) == <<n, 0, 0, 0>>
U64Max == <<LimbBase - 1, LimbBase - 1, LimbBase - 1, LimbBase - 1>>

\* a < b as u64.
U64Less(a, b) ==
    \E i \in 1..4 : a[i] < b[i] /\ \A j \in (i + 1)..4 : a[j] = b[j]

\* u64::saturating_add(1)
RECURSIVE saturating_add(_, _)
saturating_add(c, i) ==
    IF c = U64Max THEN c
    ELSE IF c[i] = LimbBase - 1 THEN saturating_add([c EXCEPT ![i] = 0], i + 1)
    ELSE [c EXCEPT ![i] = c[i] + 1]

\* u64::wrapping_add(1): the carry runs from limb i upwards and is dropped
\* past the highest limb.
RECURSIVE wrapping_add(_, _)
wrapping_add(c, i) ==
    IF i > 4 THEN c
    ELSE IF c[i] = LimbBase - 1 THEN wrapping_add([c EXCEPT ![i] = 0], i + 1)
    ELSE [c EXCEPT ![i] = c[i] + 1]

\* PathfindingRequestCounter::next_id on a u64, as [id, counter].
next_id_u64(counter) == [id |-> counter, counter |-> wrapping_add(counter, 1)]

\* The values the test sets the pub field next_id to, and values a carry
\* away from them.
CounterStarts ==
    {U64(0), U64(LimbBase - 3),
     <<LimbBase - 3, LimbBase - 1, 0, 0>>,
     <<LimbBase - 3, LimbBase - 1, LimbBase - 1, 0>>,
     <<LimbBase - 3, LimbBase - 1, LimbBase - 1, LimbBase - 1>>,
     U64Max}

InitCounter ==
    /\ terrain_map = SchedMap
    /\ terrain_changes = <<>>
    /\ cache = PathfindingCacheNew
    /\ now = 0
    /\ ApiInit
    /\ entities = [e \in Entities |-> NewEntity]
    /\ next_id \in CounterStarts
    /\ ran = {}
    /\ queues = NoQueues
    /\ spawn_log = <<>>
    /\ done_log = <<>>
    /\ submitted = 0
    /\ edits = 0
    /\ consumed = {}
    /\ origin = EmptyMap

CallNextId ==
    /\ calls < MaxIssued
    /\ calls' = calls + 1
    /\ \E n \in {next_id_u64(next_id)} :
          /\ next_id' = n.counter
          /\ last' = [NoCall EXCEPT !.op = "next_id", !.id = n.id]
    /\ UNCHANGED <<terrain_map, terrain_changes, cache, now, stored, ever_stored, entities,
                   ran, queues, spawn_log, done_log, submitted, edits, consumed, origin>>

NextCounter == CallNextId

SpecCounter == InitCounter /\ [][NextCounter]_vars

\* A caller that is left without its Transform between two frames: the
\* entities the two queries of cleanup_stale_pathfinding select.
CallerLosesTransform(e) ==
    /\ ran = {}
    /\ entities[e].alive /\ entities[e].transform
    /\ entities' = [entities EXCEPT ![e].transform = FALSE]
    /\ UNCHANGED <<terrain_map, terrain_changes, cache, now, apiVars, next_id, ran, queues,
                   spawn_log, done_log, submitted, edits, consumed, origin>>

NextOrphans == Next \/ \E e \in Entities : CallerLosesTransform(e)

SpecOrphans == Init /\ [][NextOrphans]_vars

\* A click beyond the last column: handle_player_input snaps the click to a
\* tile centre without a bounds test.
OutsidePts == {tile_to_world_coords(SchedMap, GridW, 0)}

NextOutside == Next \/ \E e \in Entities, g \in OutsidePts : PlayerRequests(e, g)

SpecOutside == Init /\ [][NextOutside]_vars

(***************************************************************************)
(* Claims about the cache API.                                             *)
(***************************************************************************)
\* C1: a get_path for a key never stored is a miss; a get_path for a key whose
\* latest cache_path(key, p) was followed by no non-empty invalidation and no
\* expiry sweep is a hit that returns exactly p.
C1_HitReturnsStored ==
    last.op = "get_path" =>
        /\ last.key \notin ever_stored => ~last.hit
        /\ stored[last.key].some => last.hit /\ last.path = stored[last.key].path

\* A hit on a key that was stored, overwritten with another path, and looked up.
C1_Witness ==
    /\ last.op = "get_path" /\ last.hit
    /\ stored[last.key].some /\ stored[last.key].path.some
    /\ Cardinality(DOMAIN cache.spatial_index) > 1
    /\ \E t \in DOMAIN cache.spatial_index : Len(cache.spatial_index[t]) > 1

\* Key k is in some list of the spatial index.
KeyIndexed(c, k) == \E t \in DOMAIN c.spatial_index : k \in Range(c.spatial_index[t])

\* C2: get_path returns a stored result only at the current terrain version;
\* on a stale entry it misses and leaves the key absent from the path cache
\* and from every list of the spatial index.
C2_StaleEvicted ==
    \A s \in CacheStarts, g \in CacheGoals, z \in CacheSizes :
        LET k == PathCacheKey(s, g, z)
            r == get_path(cache, s, g, z, now)
        IN  /\ r.hit => /\ k \in DOMAIN cache.path_cache
                        /\ cache.path_cache[k].terrain_version = cache.terrain_version
                        /\ r.path = cache.path_cache[k].path
            /\ (k \in DOMAIN cache.path_cache
                  /\ cache.path_cache[k].terrain_version # cache.terrain_version)
               => /\ ~r.hit
                  /\ k \notin DOMAIN r.cache.path_cache
                  /\ ~KeyIndexed(r.cache, k)

\* C3: once invalidate_from_terrain_changes has run on a change set holding a
\* cell of a cached key's footprint, the terrain version is strictly greater
\* than before the call and the next get_path of that key is a miss.
C3_InvalidationMisses ==
    (last.op = "invalidate_from_terrain_changes" /\ last.touched # {}) =>
        /\ cache.terrain_version > last.version_before
        /\ \A s \in CacheStarts, g \in CacheGoals, z \in CacheSizes :
              PathCacheKey(s, g, z) \in last.touched => ~get_path(cache, s, g, z, now).hit

\* An invalidation that touched a cached footprint while another cached key
\* was left untouched.
C3_Witness ==
    /\ last.op = "invalidate_from_terrain_changes"
    /\ last.touched # {}
    /\ DOMAIN cache.path_cache # {}

(***************************************************************************)
(* The scheduler under fair scheduling of ticks and of workers: frames     *)
(* keep coming, and a search once started runs to its end.                 *)
(***************************************************************************)
Tick ==
    \/ cleanup_stale_pathfinding
    \/ spawn_cached_pathfinding_tasks
    \/ handle_completed_cached_pathfinding
    \/ update_terrain_visuals
    \/ EndFrame

SpecFair ==
    /\ Init
    /\ [][Next]_vars
    /\ WF_vars(Tick)
    /\ \A e \in Entities : WF_vars(WorkerRuns(e))

(***************************************************************************)
(* Claims about the scheduler.                                             *)
(***************************************************************************)
SpawnRuns ==
    /\ "spawn_cached_pathfinding_tasks" \notin ran
    /\ "spawn_cached_pathfinding_tasks" \in ran'

HandleRuns ==
    /\ "handle_completed_cached_pathfinding" \notin ran
    /\ "handle_completed_cached_pathfinding" \in ran'

FrameEnds == ran # {} /\ ran' = {}

RequestIds == 1..MaxRequests

C5_RequestsConsumedOnce ==
    [][ /\ SpawnRuns =>
             LET pending == {e \in Entities : /\ entities[e].alive
                                              /\ entities[e].request.some
                                              /\ ~entities[e].task.some}
             IN  /\ Len(spawn_log') = Cardinality(pending)
                 /\ \A e \in pending :
                       \E i \in DOMAIN spawn_log' :
                          /\ spawn_log'[i].e = e
                          /\ spawn_log'[i].rid = entities[e].request.rid
                          /\ spawn_log'[i].start = entities[e].request.start
                          /\ spawn_log'[i].goal = entities[e].request.goal
                          /\ spawn_log'[i].size = entities[e].request.size
                 /\ \A i \in DOMAIN spawn_log' : spawn_log'[i].rid \notin consumed
        /\ FrameEnds =>
             \A i \in DOMAIN spawn_log :
                LET l == spawn_log[i]
                    r == entities'[l.e].request
                    t == entities'[l.e].task
                IN  /\ ~(r.some /\ r.rid = l.rid)
                    /\ l.hit => ~t.some
                    /\ ~l.hit => /\ t.some
                                 /\ t.rid = l.rid
                                 /\ t.request_id = l.request_id
                                 /\ t.start = l.start
                                 /\ t.goal = l.goal
                                 /\ t.size = l.size
      ]_vars

\* A run of the spawn system that resolved one request from the cache, with
\* a path, and dispatched another.
C5_Witness ==
    \E i, j \in DOMAIN spawn_log :
        /\ spawn_log[i].hit /\ spawn_log[i].path.some
        /\ ~spawn_log[j].hit

InFlight(r) ==
    \E e \in Entities :
        \/ entities[e].request.some /\ entities[e].request.rid = r
        \/ entities[e].task.some /\ entities[e].task.rid = r

C8_PriorityOrder ==
    \A i, j \in DOMAIN spawn_log :
        spawn_log[i].priority > spawn_log[j].priority =>
            /\ i < j
            /\ spawn_log[i].request_id < spawn_log[j].request_id

\* A run that handled a Critical and a High request.
C8_Witness ==
    \E i, j \in DOMAIN spawn_log :
        spawn_log[i].priority = Critical /\ spawn_log[j].priority = High

\* C9: within one run of the spawn system every request that hits the cache
\* is resolved before any request that misses is dispatched.
C9_HitsBeforeDispatches ==
    \A i, j \in DOMAIN spawn_log :
        (spawn_log[i].hit /\ ~spawn_log[j].hit) => i < j

\* C9, as the code has it: requests are handled one by one in priority
\* order, so a hit and a dispatch of different priorities come in the order
\* of their priorities, whichever of the two the hit is.
C9_HitAndDispatchByPriority ==
    \A i, j \in DOMAIN spawn_log :
        (spawn_log[i].hit # spawn_log[j].hit /\ spawn_log[i].priority > spawn_log[j].priority)
            => i < j

\* A run in which the request of higher priority missed and was dispatched,
\* and the request of lower priority hit the cache.
C9_Witness ==
    \E i, j \in DOMAIN spawn_log :
        /\ ~spawn_log[i].hit /\ spawn_log[j].hit
        /\ spawn_log[i].priority > spawn_log[j].priority

\* C10: the result of a dispatched search is the path search on the copy
\* of the grid taken at its dispatch, whatever the shared grid has become.
C10_SearchOnDispatchGrid ==
    \A e \in Entities :
        (entities[e].alive /\ entities[e].task.some /\ entities[e].task.done) =>
            LET t == entities[e].task
            IN  t.result = (CHOOSE r \in SearchTable :
                               r.tm = t.terrain_clone /\ r.goal = t.goal).path

\* A finished search whose result differs from what the shared grid, edited
\* since the dispatch, would give.
C10_Witness ==
    \E e \in Entities :
        LET t == entities[e].task
        IN  /\ entities[e].alive /\ t.some /\ t.done
            /\ terrain_map # t.terrain_clone
            /\ t.result # (CHOOSE r \in SearchTable : r.tm = terrain_map /\ r.goal = t.goal).path

\* C11: every recorded terrain change is applied to the scheduler's cache by
\* an invalidation pass before the change set is cleared: once the change set
\* of an edit has been cleared, no hit the scheduler serves comes from an
\* entry that was stored before that edit.
C11_NoHitFromBeforeEdit ==
    \A i \in DOMAIN spawn_log :
        (spawn_log[i].hit /\ ~spawn_log[i].pending)
            => spawn_log[i].cached_edits = spawn_log[i].edits

\* C12: an invalidation pass that has processed a non-empty change set
\* leaves the change set empty, so that a change is applied at most once.
C12_ChangeSetClearedByCache ==
    [][ cache'.terrain_version # cache.terrain_version => terrain_changes' = <<>> ]_vars

\* C12, as the code has it: invalidate_from_terrain_changes only reads the
\* change set; a pass over a non-empty set leaves it as it was and raises the
\* terrain version by one, also when the same set was processed before; the
\* set becomes empty only by TerrainChanges::clear, which leaves the cache
\* alone.
C12_ChangeSetKeptByCache ==
    [][ /\ cache'.terrain_version # cache.terrain_version =>
              /\ terrain_changes # <<>>
              /\ terrain_changes' = terrain_changes
              /\ cache'.terrain_version = cache.terrain_version + 1
        /\ (terrain_changes # <<>> /\ terrain_changes' = <<>>) => cache' = cache
      ]_vars

\* Two calls made, both invalidation passes over a non-empty change set: the
\* second raised the version again.
C12_Witness ==
    /\ calls = 2
    /\ last.op = "invalidate_from_terrain_changes"
    /\ last.version_before = 2
    /\ cache.terrain_version = 3
    /\ terrain_changes # <<>>

NoneCached(c, k) ==
    /\ k \in DOMAIN c.path_cache
    /\ c.path_cache[k].terrain_version = c.terrain_version
    /\ ~c.path_cache[k].path.some

\* C14: a cached search that ran and found no path leaves None stored under
\* its key; a lookup of a key that holds None is a hit that returns None,
\* unlike the miss of an absent key; and a cached search for such a key
\* returns None without searching, with path_cache_hits one higher and
\* path_cache_misses as before.
C14_NoPathIsCached ==
    /\ [](( /\ last.op = "find_path_for_size_cached"
            /\ last.searched /\ ~last.path.some) => NoneCached(cache, last.key))
    /\ [](\A k \in DOMAIN cache.path_cache, z \in QuerySizes :
             (NoneCached(cache, k) /\ k.size_tier = quantize_size(z)) =>
                LET r == get_path(cache, k.start_tile, k.goal_tile, z, now)
                    absent == get_path(PathfindingCacheNew, k.start_tile, k.goal_tile, z, now)
                IN  /\ r.hit /\ r.path = NonePath
                    /\ ~absent.hit)
    /\ [][ ( /\ calls' # calls
             /\ last'.op = "find_path_for_size_cached"
             /\ NoneCached(cache, last'.key)
             /\ world_to_tile_coords(terrain_map, last'.goal[1], last'.goal[2]).some )
           => /\ last'.path = NonePath
              /\ last'.hit /\ ~last'.searched
              /\ cache'.stats.path_cache_hits = cache.stats.path_cache_hits + 1
              /\ cache'.stats.path_cache_misses = cache.stats.path_cache_misses
         ]_vars

\* Two identical cached searches with no path: the first searched and missed,
\* the second was served the stored None.
C14_Witness ==
    /\ calls = 2
    /\ last.op = "find_path_for_size_cached"
    /\ last.hit /\ ~last.searched /\ ~last.path.some
    /\ cache.stats.path_cache_hits = 1
    /\ cache.stats.path_cache_misses = 1

\* A start or goal outside the grid.
Outside(l) ==
    \/ ~world_to_tile_coords(terrain_map, l.start[1], l.start[2]).some
    \/ ~world_to_tile_coords(terrain_map, l.goal[1], l.goal[2]).some

\* C15: the None outcome of a request outside the grid is cached: an
\* identical request that follows a completed one in the same terrain version
\* is a cache hit.
C15_OutsideCachedAsNone ==
    \A i \in DOMAIN spawn_log :
        (Outside(spawn_log[i]) /\ spawn_log[i].repeated) => spawn_log[i].hit

\* C15, as the code has it: a request outside the grid has no cache key; the
\* lookup is skipped and a task is dispatched, the repeat of a completed one
\* included; its task completes with None, the completion stores nothing in
\* the cache, and at the end of that frame the task is gone and the entity's
\* PawnTarget is as it was.
C15_OutsideResolvesUncached ==
    /\ [](\A i \in DOMAIN spawn_log :
             Outside(spawn_log[i]) => ~spawn_log[i].looked /\ ~spawn_log[i].hit)
    /\ [](\A e \in Entities :
             (entities[e].task.some /\ entities[e].task.done /\ Outside(entities[e].task))
                => ~entities[e].task.result.some)
    /\ [][ /\ (HandleRuns /\ \A i \in DOMAIN done_log' : Outside(done_log'[i]))
              => cache' = cache
           /\ SpawnRuns =>
                 \A i \in DOMAIN spawn_log' :
                    Outside(spawn_log'[i]) =>
                       \E k \in DOMAIN queues'["spawn_cached_pathfinding_tasks"] :
                          LET c == queues'["spawn_cached_pathfinding_tasks"][k]
                          IN  c.e = spawn_log'[i].e /\ c.op = "insert_task"
           /\ FrameEnds =>
                 \A i \in DOMAIN done_log :
                    Outside(done_log[i]) =>
                       /\ ~entities'[done_log[i].e].task.some
                       /\ entities'[done_log[i].e].target = entities[done_log[i].e].target
         ]_vars

\* A request outside the grid dispatched again after an identical one had
\* completed with None.
C15_Witness ==
    \E i \in DOMAIN spawn_log :
        /\ Outside(spawn_log[i])
        /\ spawn_log[i].repeated
        /\ ~spawn_log[i].hit

\* C16: terrain_version is 1 until the first call of the cache and never
\* decreases; only invalidate_from_terrain_changes changes it, and each call
\* with a non-empty change set raises it by exactly 1, whatever the number of
\* cells in the set.
C16_VersionMonotone ==
    /\ [](calls = 0 => cache.terrain_version = 1)
    /\ [][ /\ cache'.terrain_version >= cache.terrain_version
           /\ cache'.terrain_version # cache.terrain_version
                 => (calls' = calls + 1 /\ last'.op = "invalidate_from_terrain_changes")
           /\ (calls' = calls + 1 /\ last'.op = "invalidate_from_terrain_changes"
                  /\ terrain_changes # <<>>)
                 => cache'.terrain_version = cache.terrain_version + 1
         ]_vars

\* Two invalidations, the second with a change set of two cells: the version
\* has gone from 1 to 2 to 3.
C16_Witness ==
    /\ last.op = "invalidate_from_terrain_changes"
    /\ last.version_before = 2
    /\ cache.terrain_version = 3
    /\ Len(terrain_changes) = 2
    /\ cache.stats.terrain_invalidations = 2

\* C17: invalidate_from_terrain_changes called with an empty change set
\* leaves the cache as it was: terrain_version, the path cache, the
\* passability cache, the spatial index and the statistics, terrain_invalidations
\* included.
C17_EmptyChangeSetNoOp ==
    [][ (calls' = calls + 1 /\ last'.op = "invalidate_from_terrain_changes"
            /\ terrain_changes = <<>>)
           => /\ cache'.terrain_version = cache.terrain_version
              /\ cache'.path_cache = cache.path_cache
              /\ cache'.passability_cache = cache.passability_cache
              /\ cache'.spatial_index = cache.spatial_index
              /\ cache'.stats = cache.stats
      ]_vars

\* An invalidation with an empty change set on a cache that holds a path, its
\* index lists and a passability entry.
C17_Witness ==
    /\ last.op = "invalidate_from_terrain_changes"
    /\ terrain_changes = <<>>
    /\ last.version_before = cache.terrain_version
    /\ DOMAIN cache.path_cache # {}
    /\ DOMAIN cache.spatial_index # {}
    /\ DOMAIN cache.passability_cache # {}
    /\ cache.stats.terrain_invalidations = 0

\* C18: the spatial index and the path cache agree: key k is in the list of
\* cell c exactly when the path cache has an entry for k whose footprint holds
\* c, k is in a list at most once, and the index has no empty list.
C18_IndexAgreesWithCache ==
    /\ \A c \in DOMAIN cache.spatial_index :
          LET keys == cache.spatial_index[c]
          IN  /\ keys # <<>>
              /\ \A i, j \in DOMAIN keys : keys[i] = keys[j] => i = j
              /\ \A i \in DOMAIN keys :
                    /\ keys[i] \in DOMAIN cache.path_cache
                    /\ c \in cache.path_cache[keys[i]].affected_tiles
    /\ \A k \in DOMAIN cache.path_cache :
          \A c \in cache.path_cache[k].affected_tiles :
              /\ c \in DOMAIN cache.spatial_index
              /\ k \in Range(cache.spatial_index[c])

\* C19: cleanup_expired_entries removes exactly the path entries and the
\* passability entries last accessed more than 30 s ago and keeps the others
\* as they are; an evicted key is in no list of the spatial index afterwards;
\* a get_path or get_passability hit sets the entry's last access to the
\* time of the call.
C19_CleanupEvictsOld ==
    [][ /\ (calls' = calls + 1 /\ last'.op = "cleanup_expired_entries") =>
              /\ DOMAIN cache'.path_cache =
                    {k \in DOMAIN cache.path_cache :
                        now - cache.path_cache[k].last_accessed <= ExpirySecs}
              /\ \A k \in DOMAIN cache'.path_cache : cache'.path_cache[k] = cache.path_cache[k]
              /\ DOMAIN cache'.passability_cache =
                    {k \in DOMAIN cache.passability_cache :
                        now - cache.passability_cache[k].last_accessed <= ExpirySecs}
              /\ \A k \in DOMAIN cache'.passability_cache :
                    cache'.passability_cache[k] = cache.passability_cache[k]
              /\ \A k \in DOMAIN cache.path_cache \ DOMAIN cache'.path_cache :
                    ~KeyIndexed(cache', k)
        /\ (calls' = calls + 1 /\ last'.op = "get_path" /\ last'.hit) =>
              cache'.path_cache[last'.key].last_accessed = now
        /\ (calls' = calls + 1 /\ last'.op = "get_passability" /\ last'.hit) =>
              cache'.passability_cache[
                  PassabilityCacheKey(last'.start[1], last'.start[2], last'.size)
              ].last_accessed = now
      ]_vars

\* C20: with the cache invalidated after every terrain change, the result of
\* find_path_for_size_cached is the result of the uncached find_path_for_size
\* on the current grid, whatever cached queries came before, those from other
\* positions inside the same cells and with other sizes of the same size tier
\* included.
C20_CacheInvisible ==
    last.op = "find_path_for_size_cached" =>
        last.path = find_path_for_size(terrain_map, last.start, last.goal, last.size)

SweepRuns ==
    /\ "cleanup_stale_pathfinding" \notin ran
    /\ "cleanup_stale_pathfinding" \in ran'

C22_PollLeavesUnfinished ==
    [][ /\ HandleRuns =>
              /\ entities' = entities
              /\ \A e \in Entities :
                    (entities[e].task.some /\ ~entities[e].task.done) =>
                       /\ \A i \in DOMAIN queues'["handle_completed_cached_pathfinding"] :
                             queues'["handle_completed_cached_pathfinding"][i].e # e
                       /\ \A i \in DOMAIN done_log' : done_log'[i].e # e
              /\ \A k \in DOMAIN cache'.path_cache :
                    (k \notin DOMAIN cache.path_cache
                       \/ cache'.path_cache[k] # cache.path_cache[k]) =>
                       \E e \in Entities :
                          /\ entities[e].task.some /\ entities[e].task.done
                          /\ k = QueryKey(terrain_map, entities[e].task.start,
                                          entities[e].task.goal, entities[e].task.size)
              /\ (\A e \in Entities : entities[e].task.some => ~entities[e].task.done)
                    => cache' = cache
        /\ FrameEnds =>
              \A e \in Entities :
                 (entities[e].task.some /\ \A i \in DOMAIN done_log : done_log[i].e # e) =>
                    /\ entities'[e].task = entities[e].task
                    /\ entities'[e].target = entities[e].target
      ]_vars

\* The handler has run in this frame, has polled one entity's task to
\* completion and has left the unfinished task of the other.
C22_Witness ==
    /\ "handle_completed_cached_pathfinding" \in ran
    /\ \E e \in Entities :
          /\ entities[e].task.some /\ ~entities[e].task.done
          /\ \E i \in DOMAIN done_log : done_log[i].e # e

\* b = a + 1 modulo 2^64, limb by limb.
U64Succ(a, b) ==
    \/ a = U64Max /\ b = U64(0)
    \/ \E i \in 1..4 :
          /\ a[i] < LimbBase - 1 /\ b[i] = a[i] + 1
          /\ \A j \in 1..(i - 1) : a[j] = LimbBase - 1 /\ b[j] = 0
          /\ \A j \in (i + 1)..4 : b[j] = a[j]

\* C23: next_id returns the stored value and advances it by 1 modulo 2^64:
\* each id issued is the successor of the one issued before and greater than
\* it, except that the id issued after 2^64-1 is 0; from 0 the ids are 0, 1,
\* 2, ...
C23_CounterWraps ==
    /\ [](last.op = "next_id" =>
             /\ U64Succ(last.id, next_id)
             /\ (last.id # U64Max => U64Less(last.id, next_id))
             /\ (last.id = U64Max => next_id = U64(0))
             /\ (last.id[2] = 0 /\ last.id[3] = 0 /\ last.id[4] = 0
                   /\ last.id[1] < LimbBase - 1)
                => /\ next_id_of(last.id[1]).id = next_id_u64(last.id).id[1]
                   /\ U64(next_id_of(last.id[1]).counter) = next_id_u64(last.id).counter)
    /\ [][ /\ last'.id = next_id
           /\ last.op = "next_id" =>
                 /\ last.id # U64Max => U64Less(last.id, last'.id)
                 /\ last.id = U64Max => last'.id = U64(0)
           /\ (last.op = "none" /\ next_id = U64(0)) => last'.id = U64(0)
           /\ (calls < 3 /\ last.op = "next_id" /\ last.id = U64(calls - 1))
                 => last'.id = U64(calls)
         ]_vars

\* The id issued after 2^64-1: 0, with the counter at 1.
C23_Witness ==
    /\ last.op = "next_id"
    /\ last.id = U64(0)
    /\ next_id = U64(1)
    /\ calls = 4

\* round(size * 8) clamped into 0..255, for a size in hundredths: the tier t
\* with t - 1/2 <= 8 * size < t + 1/2, 0 below and 255 above.
Tier(size) ==
    CHOOSE t \in 0..255 :
        \/ t = 0 /\ 8 * size < 50
        \/ t = 255 /\ 8 * size >= 25450
        \/ 0 < t /\ t < 255 /\ 100 * t - 50 <= 8 * size /\ 8 * size < 100 * t + 50

\* C24: the key of a call holds round(size * 8) clamped into 0..255; a
\* get_path that follows a cache_path between the same cells is a hit exactly
\* when its size has the tier of the stored one; sizes 1.0 and 1.01 share a
\* key, 1.0 and 2.0 do not.
C24_SizeTiers ==
    /\ [](last.op \in {"cache_path", "get_path"} =>
             /\ last.key.size_tier = Tier(last.size)
             /\ \A z \in QuantSizes :
                   (PathCacheKey(last.key.start_tile, last.key.goal_tile, z) = last.key)
                      <=> (Tier(z) = Tier(last.size)))
    /\ [](PathCacheKey(<<0, 0>>, <<2, 0>>, 100) = PathCacheKey(<<0, 0>>, <<2, 0>>, 101)
          /\ PathCacheKey(<<0, 0>>, <<2, 0>>, 100) # PathCacheKey(<<0, 0>>, <<2, 0>>, 200))
    /\ [][ (calls = 1 /\ last.op = "cache_path" /\ last'.op = "get_path") =>
              (last'.hit <=> Tier(last'.size) = Tier(last.size)) ]_vars

\* The get_path of size 1.01 has hit the entry stored with size 1.0.
C24_Witness ==
    /\ last.op = "get_path"
    /\ last.size = 101 /\ last.hit
    /\ cache.stats.path_cache_hits = 1
    /\ DOMAIN cache.path_cache = {PathCacheKey(<<0, 0>>, <<2, 0>>, 100)}

\* C25: for every cell (x, y) of the grid,
\* world_to_tile_coords(tile_to_world_coords(x, y)) is Some((x, y)).
C25_CoordinateRoundTrip ==
    last.op = "world_to_tile_coords" => (last.hit /\ last.goal = last.start)

\* The round trip of the last cell of the widest grid with an odd tile size.
C25_Witness ==
    /\ last.op = "world_to_tile_coords"
    /\ terrain_map.width = MaxGridW /\ terrain_map.height = MaxGridH
    /\ terrain_map.tile_size = 3
    /\ last.start = <<MaxGridW - 1, MaxGridH - 1>>
    /\ last.hit

\* The world position is outside the extent of the grid, which is centred
\* on the origin: [-w * ts / 2, w * ts / 2) by [-h * ts / 2, h * ts / 2).
OutsideExtent(tm, pt) ==
    \/ 2 * pt[1] < -(tm.width * tm.tile_size) \/ 2 * pt[1] >= tm.width * tm.tile_size
    \/ 2 * pt[2] < -(tm.height * tm.tile_size) \/ 2 * pt[2] >= tm.height * tm.tile_size

\* C26: whatever the grid holds, is_tile_passable is false for a cell outside
\* the grid and for a cell whose class index has no entry in the class table;
\* for a world position outside the grid's extent world_to_tile_coords is
\* None and is_passable_at_world_pos is false.
C26_OutsideImpassable ==
    /\ (last.op = "is_tile_passable" =>
          /\ ~(last.start[1] \in 0..(terrain_map.width - 1)
                 /\ last.start[2] \in 0..(terrain_map.height - 1)) => ~last.hit
          /\ (last.start \in DOMAIN terrain_map.tiles
                 /\ terrain_map.tiles[last.start] \notin {Dirt, Grass, Stone, Water})
                => ~last.hit)
    /\ (last.op = "world_to_tile_coords" /\ OutsideExtent(terrain_map, last.start))
          => ~last.hit
    /\ (last.op = "is_passable_at_world_pos" /\ OutsideExtent(terrain_map, last.start))
          => ~last.hit

\* is_tile_passable asked of a cell that was given a class index without an
\* entry in the table.
C26_Witness ==
    /\ last.op = "is_tile_passable"
    /\ last.start \in DOMAIN terrain_map.tiles
    /\ terrain_map.tiles[last.start] = UnknownClass
    /\ ~last.hit
    /\ \E c \in DOMAIN terrain_map.tiles : terrain_map.tiles[c] = Stone

\* C27: set_tile with x >= width or y >= height, and set_tile_at_world_pos
\* with a position outside the grid's extent, leave every cell and the
\* change set as they were; set_tile_at_world_pos returns false.
C27_SetOutsideIsNoOp ==
    [][ /\ (calls' = calls + 1 /\ last'.op = "set_tile"
              /\ (last'.start[1] >= terrain_map.width \/ last'.start[2] >= terrain_map.height))
           => (terrain_map' = terrain_map /\ terrain_changes' = terrain_changes)
        /\ (calls' = calls + 1 /\ last'.op = "set_tile_at_world_pos"
              /\ OutsideExtent(terrain_map, last'.start))
           => (terrain_map' = terrain_map /\ terrain_changes' = terrain_changes
               /\ ~last'.hit)
      ]_vars

\* set_tile_at_world_pos has refused a position outside the grid, after an
\* edit inside the grid had been recorded.
C27_Witness ==
    /\ last.op = "set_tile_at_world_pos"
    /\ OutsideExtent(terrain_map, last.start)
    /\ ~last.hit
    /\ Len(terrain_changes) = 1
    /\ terrain_map.tiles[<<terrain_changes[1][1], terrain_changes[1][2]>>] = Stone

\* C28: when the start or the goal is not clearance-passable for the size,
\* or is outside the grid, find_path_for_size returns None and has not run
\* the search.
C28_BlockedEndpointNoSearch ==
    (last.op = "find_path_for_size"
       /\ \/ ~is_position_passable_for_size(terrain_map, last.start[1], last.start[2], last.size)
          \/ ~is_position_passable_for_size(terrain_map, last.goal[1], last.goal[2], last.size)
          \/ OutsideExtent(terrain_map, last.start)
          \/ OutsideExtent(terrain_map, last.goal))
    => (~last.path.some /\ ~last.searched)

\* A query from a passable start to a goal that lies in the grid on a Dirt
\* cell but too close to a Stone cell for the pawn: None, without a search.
C28_Witness ==
    /\ last.op = "find_path_for_size"
    /\ is_position_passable_for_size(terrain_map, last.start[1], last.start[2], last.size)
    /\ ~OutsideExtent(terrain_map, last.goal)
    /\ is_passable_at_world_pos(terrain_map, last.goal[1], last.goal[2])
    /\ ~is_position_passable_for_size(terrain_map, last.goal[1], last.goal[2], last.size)
    /\ ~last.path.some /\ ~last.searched

\* The cells of a path of world positions.
PathCells(tm, pts) == [i \in 1..Len(pts) |-> TileOfQ(tm, pts[i][1], pts[i][2], 1)]

\* The cost of a sequence of cells: 10 for a step along a row or a column,
\* 14 for a diagonal step.
RECURSIVE RouteCost(_)
RouteCost(cells) ==
    IF Len(cells) <= 1 THEN 0
    ELSE (IF cells[1][1] # cells[2][1] /\ cells[1][2] # cells[2][2] THEN 14 ELSE 10)
            + RouteCost(Tail(cells))

EightAdjacent(a, b) == a # b /\ Abs(a[1] - b[1]) <= 1 /\ Abs(a[2] - b[2]) <= 1

\* The edges of the graph: a step between 8-adjacent cells whose destination
\* centre is clearance-passable and whose centre-to-centre segment is clear.
RouteEdge(tm, a, b, size) ==
    /\ EightAdjacent(a, b)
    /\ LET fw == tile_to_world_coords(tm, a[1], a[2])
           tw == tile_to_world_coords(tm, b[1], b[2])
       IN  /\ is_position_passable_for_size(tm, tw[1], tw[2], size)
           /\ is_path_segment_clear(tm, fw, tw, size)

\* The least cost of a route from the start cell to every cell a route
\* reaches, as a set of pairs <<cell, cost>>, by n rounds of relaxation over
\* the edges (Bellman-Ford).
RECURSIVE LeastCosts(_, _, _)
LeastCosts(edges, d, n) ==
    IF n = 0 \/ Cardinality(d) = 0 \/ Cardinality(edges) = 0 THEN d
    ELSE LET steps == {x \in edges \X d : x[1][1] = x[2][1]}
             offers == d \cup {<<x[1][2], x[2][2] + RouteCost(<<x[1][1], x[1][2]>>)>> :
                                  x \in steps}
             best == {o \in offers : \A q \in offers : q[1] = o[1] => o[2] <= q[2]}
         IN  IF Cardinality(offers) = 0 THEN d ELSE LeastCosts(edges, best, n - 1)

RouteEdges(tm, size) ==
    {e \in Cells(tm.width, tm.height) \X Cells(tm.width, tm.height) :
        RouteEdge(tm, e[1], e[2], size)}

EndpointsPassable ==
    /\ last.op = "find_path_for_size"
    /\ is_position_passable_for_size(terrain_map, last.start[1], last.start[2], last.size)
    /\ is_position_passable_for_size(terrain_map, last.goal[1], last.goal[2], last.size)

\* C29: when both endpoints are clearance-passable, find_path_for_size
\* returns a path exactly when the graph of allowed moves has a route from
\* the start cell to the goal cell, and the cost of the returned path (10
\* per straight step, 14 per diagonal step) is the least cost of such a
\* route.
C29_LeastCostRoute ==
    EndpointsPassable =>
        LET s == TileOfQ(terrain_map, last.start[1], last.start[2], 1)
            g == TileOfQ(terrain_map, last.goal[1], last.goal[2], 1)
            d == LeastCosts(RouteEdges(terrain_map, last.size), {<<s, 0>>},
                            terrain_map.width * terrain_map.height)
        IN  /\ last.path.some <=> \E p \in d : p[1] = g
            /\ last.path.some =>
                  <<g, RouteCost(PathCells(terrain_map, last.path.pts))>> \in d

\* A path that goes round a Stone cell: it costs more than the straight
\* route over open ground would.
C29_Witness ==
    /\ EndpointsPassable
    /\ last.path.some
    /\ LET cells == PathCells(terrain_map, last.path.pts)
       IN  /\ Len(cells) >= 3
           /\ RouteCost(cells) > 10 * Max(Abs(cells[1][1] - cells[Len(cells)][1]),
                                          Abs(cells[1][2] - cells[Len(cells)][2]))
                                  + 4 * Min(Abs(cells[1][1] - cells[Len(cells)][1]),
                                            Abs(cells[1][2] - cells[Len(cells)][2]))

\* C30: every path returned by find_path_for_size starts at the centre of
\* the start cell, ends at the centre of the goal cell, steps between
\* 8-adjacent cells, and has every waypoint clearance-passable for the
\* requested size.
C30_PathShape ==
    (last.op = "find_path_for_size" /\ last.path.some) =>
        LET pts == last.path.pts
            s == TileOfQ(terrain_map, last.start[1], last.start[2], 1)
            g == TileOfQ(terrain_map, last.goal[1], last.goal[2], 1)
            cells == PathCells(terrain_map, pts)
        IN  /\ Len(pts) >= 1
            /\ pts[1] = tile_to_world_coords(terrain_map, s[1], s[2])
            /\ pts[Len(pts)] = tile_to_world_coords(terrain_map, g[1], g[2])
            /\ \A i \in 1..(Len(pts) - 1) : EightAdjacent(cells[i], cells[i + 1])
            /\ \A i \in 1..Len(pts) :
                  is_position_passable_for_size(terrain_map, pts[i][1], pts[i][2], last.size)

\* C31: across a wall with a gap one cell wide, find_path_for_size returns
\* a path for a pawn of size 0.5 and None for a pawn of size 2.2, whatever
\* the start on one side of the wall and the goal on the other.
C31_GapSizeSensitivity ==
    last.op = "find_path_for_size" =>
        /\ last.size = 50 => last.path.some
        /\ last.size = 220 => ~last.path.some

\* The pawn of size 2.2 stands clear at both ends, the search runs and finds
\* no route through the gap.
C31_Witness ==
    /\ last.op = "find_path_for_size"
    /\ last.size = 220
    /\ is_position_passable_for_size(terrain_map, last.start[1], last.start[2], last.size)
    /\ is_position_passable_for_size(terrain_map, last.goal[1], last.goal[2], last.size)
    /\ last.searched
    /\ ~last.path.some

InvalidateRuns ==
    /\ last'.op = "invalidate_from_terrain_changes"
    /\ calls' = calls + 1

ChangedNow == {<<terrain_changes[i][1], terrain_changes[i][2]>> : i \in DOMAIN terrain_changes}

\* C32: invalidate_from_terrain_changes removes from the path cache exactly
\* the entries whose footprint holds a changed cell: afterwards no stored
\* entry has a changed cell in its footprint, and every entry whose footprint
\* holds no changed cell is still stored with the version stamp it had.
C32_FootprintExactlyRemoved ==
    [][InvalidateRuns =>
          /\ \A k \in DOMAIN cache'.path_cache :
                cache'.path_cache[k].affected_tiles \cap ChangedNow = {}
          /\ \A k \in DOMAIN cache.path_cache :
                cache.path_cache[k].affected_tiles \cap ChangedNow = {}
                   => /\ k \in DOMAIN cache'.path_cache
                      /\ cache'.path_cache[k].terrain_version
                            = cache.path_cache[k].terrain_version
      ]_vars

NearChanged(k) ==
    \E i \in DOMAIN terrain_changes :
        /\ Abs(k.tile_x - terrain_changes[i][1]) <= 3
        /\ Abs(k.tile_y - terrain_changes[i][2]) <= 3

\* C33: invalidate_from_terrain_changes removes a stored passability entry
\* exactly when its cell is within 3 cells of a changed cell in both
\* coordinates, whatever its size bucket; the entries farther away stay
\* stored as they were.
C33_PassabilityPurgedWithin3 ==
    [][InvalidateRuns =>
          /\ DOMAIN cache'.passability_cache
                = {k \in DOMAIN cache.passability_cache : ~NearChanged(k)}
          /\ \A k \in DOMAIN cache'.passability_cache :
                cache'.passability_cache[k] = cache.passability_cache[k]
      ]_vars

\* An invalidation that removed an entry 3 cells from a changed cell, in
\* either size bucket, and kept one 4 cells away.
C33_Witness ==
    /\ last.op = "invalidate_from_terrain_changes"
    /\ terrain_changes # <<>>
    /\ \E k \in last.passability_before :
          /\ k \notin DOMAIN cache.passability_cache
          /\ \E i \in DOMAIN terrain_changes :
                Max(Abs(k.tile_x - terrain_changes[i][1]),
                    Abs(k.tile_y - terrain_changes[i][2])) = 3
    /\ \E k \in last.passability_before :
          /\ k \in DOMAIN cache.passability_cache
          /\ \A i \in DOMAIN terrain_changes :
                Max(Abs(k.tile_x - terrain_changes[i][1]),
                    Abs(k.tile_y - terrain_changes[i][2])) = 4

\* C34: an entry is served exactly when its version stamp is the current
\* version, and after an invalidate_from_terrain_changes with a non-empty
\* change set get_path misses for every key cached before the call and
\* get_passability misses for every cell cached before it, the entries far
\* from every changed cell included.
C34_StaleAfterAnyChange ==
    /\ [](\A s \in CacheStarts, g \in CacheGoals, z \in FarSizes :
             get_path(cache, s, g, z, now).hit
                <=> /\ PathCacheKey(s, g, z) \in DOMAIN cache.path_cache
                    /\ cache.path_cache[PathCacheKey(s, g, z)].terrain_version
                          = cache.terrain_version)
    /\ [](\A t \in FarTiles, z \in FarSizes :
             get_passability(cache, t[1], t[2], z, now).hit
                <=> /\ PassabilityCacheKey(t[1], t[2], z) \in DOMAIN cache.passability_cache
                    /\ cache.passability_cache[PassabilityCacheKey(t[1], t[2], z)].terrain_version
                          = cache.terrain_version)
    /\ [][(InvalidateRuns /\ terrain_changes # <<>>) =>
             /\ \A s \in CacheStarts, g \in CacheGoals, z \in FarSizes :
                   PathCacheKey(s, g, z) \in DOMAIN cache.path_cache
                      => ~get_path(cache', s, g, z, now').hit
             /\ \A t \in FarTiles, z \in FarSizes :
                   PassabilityCacheKey(t[1], t[2], z) \in DOMAIN cache.passability_cache
                      => ~get_passability(cache', t[1], t[2], z, now').hit
         ]_vars

\* After an invalidation with a non-empty change set, a path entry and a
\* passability entry cached before it are still stored, far from every
\* changed cell, and both lookups miss.
C34_Witness ==
    /\ last.op = "invalidate_from_terrain_changes"
    /\ terrain_changes # <<>>
    /\ cache.terrain_version > last.version_before
    /\ last.touched = {}
    /\ \E s \in CacheStarts, g \in CacheGoals, z \in FarSizes :
          /\ PathCacheKey(s, g, z) \in DOMAIN cache.path_cache
          /\ cache.path_cache[PathCacheKey(s, g, z)].path.some
          /\ ~get_path(cache, s, g, z, now).hit
    /\ \E t \in FarTiles, z \in FarSizes :
          /\ PassabilityCacheKey(t[1], t[2], z) \in last.passability_before
          /\ PassabilityCacheKey(t[1], t[2], z) \in DOMAIN cache.passability_cache
          /\ ~get_passability(cache, t[1], t[2], z, now).hit

\* The requests the input and AI systems have queued for e in this frame.
PlacedOn(e) ==
    UNION {{queues[sys][i].request.rid :
               i \in {j \in DOMAIN queues[sys] :
                         queues[sys][j].op = "insert_request" /\ queues[sys][j].e = e}} :
           sys \in {"handle_player_input", "hunt_solo_ai_system"}}

\* C35: an entity has one PathfindingTask at a time, which stays until it is
\* retired; a run of the spawn system neither dispatches nor resolves the
\* request of an entity that holds a task; and whatever the order in which
\* the frame's deferred commands are applied, the request the input or AI
\* system placed in the frame is on its entity afterwards, and stays there
\* until a newer request replaces it or the spawn system has processed it.
C35_NewestRequestDeferred ==
    [][ /\ \A e \in Entities :
              (entities[e].task.some /\ entities'[e].task.some)
                 => entities'[e].task.rid = entities[e].task.rid
        /\ SpawnRuns =>
              \A i \in DOMAIN spawn_log' : ~entities[spawn_log'[i].e].task.some
        /\ FrameEnds =>
              \A e \in Entities : \A rid \in PlacedOn(e) :
                 entities'[e].request.some /\ entities'[e].request.rid = rid
        /\ \A e \in Entities :
              (entities[e].request.some /\ entities'[e].request # entities[e].request)
                 => \/ entities[e].request.rid \in consumed
                    \/ /\ entities'[e].request.some
                       /\ entities'[e].request.rid > entities[e].request.rid
      ]_vars

\* The eight cells the successor closure offers from cell n.
EightNeighbours(n) ==
    {<<n[1] + NeighborOffsets[i][1], n[2] + NeighborOffsets[i][2]>> : i \in 1..8}

\* C36: the heuristic 10 * max(dx, dy) + 4 * min(dx, dy) is 0 at the goal and
\* consistent with the step costs: for each of the eight neighbours n' of a
\* node n, h(n) <= cost(n, n') + h(n').
C36_HeuristicConsistent ==
    last.op = "heuristic" =>
       /\ last.start = last.goal => last.h = 0
       /\ \A n \in EightNeighbours(last.start) :
             last.h <= MoveCost(last.start, n) + Heuristic(n, last.goal)

\* The heuristic of a node a diagonal step from a cell whose heuristic is
\* lower by the whole cost of that step.
C36_Witness ==
    /\ last.op = "heuristic"
    /\ last.start # last.goal
    /\ \E n \in EightNeighbours(last.start) :
          /\ MoveCost(last.start, n) = DiagonalCost
          /\ last.h = DiagonalCost + Heuristic(n, last.goal)

\* The diagonal step from cell a to cell b passes the corner of an impassable
\* cell: one of the two cells orthogonally adjacent to both is impassable.
ClipsCorner(tm, a, b) ==
    /\ a[1] # b[1] /\ a[2] # b[2]
    /\ \/ ~is_tile_passable(tm, a[1], b[2])
       \/ ~is_tile_passable(tm, b[1], a[2])

\* C37: for a size above 0.5 the successor closure offers no diagonal step
\* between two cell centres when one of the two cells orthogonally adjacent to
\* both is impassable, and no returned path has such a step.
C37_NoCornerClipping ==
    (last.op = "find_path_for_size" /\ last.size > 50) =>
       /\ \A a \in Cells(terrain_map.width, terrain_map.height) :
             \A i \in DOMAIN Successors(terrain_map, a, last.size) :
                ~ClipsCorner(terrain_map, a, Successors(terrain_map, a, last.size)[i])
       /\ last.path.some =>
             LET cells == PathCells(terrain_map, last.path.pts)
             IN  \A i \in 1..(Len(cells) - 1) :
                    ~ClipsCorner(terrain_map, cells[i], cells[i + 1])

\* C38: is_position_passable_for_size with size 0, and with any size up to
\* 0.5, is true exactly when the position is inside the grid and the cell it
\* is in is passable, whatever the cells around it.
C38_SmallSizeOwnCellOnly ==
    (last.op = "is_position_passable_for_size" /\ last.size <= 50) =>
       LET t == world_to_tile_coords(terrain_map, last.start[1], last.start[2])
       IN  last.hit <=> (t.some /\ is_tile_passable(terrain_map, t.tile[1], t.tile[2]))

\* A pawn of half a tile passes at a point where one of a whole tile is
\* blocked by a neighbouring cell.
C38_Witness ==
    /\ last.op = "is_position_passable_for_size"
    /\ last.size = 50
    /\ last.hit
    /\ ~is_position_passable_for_size(terrain_map, last.start[1], last.start[2], PawnSize)

\* A step that is one call of get_path.
GetPathRuns == calls' = calls + 1 /\ last'.op = "get_path"

\* C39: every call of get_path raises exactly one of path_cache_hits and
\* path_cache_misses by 1, the hits exactly when it returns a result; the two
\* start at 0 and no other call of the cache changes them, so that their sum
\* is the number of get_path calls; and get_hit_ratio is
\* hits / (hits + misses), and 0 when there was no lookup.
C39_HitsAndMissesCountLookups ==
    /\ [](calls = 0 =>
             cache.stats.path_cache_hits = 0 /\ cache.stats.path_cache_misses = 0)
    /\ [](LET r == get_hit_ratio(cache)
              total == cache.stats.path_cache_hits + cache.stats.path_cache_misses
          IN  IF total = 0
              THEN r[1] = 0 /\ r[2] # 0
              ELSE r[2] # 0 /\ r[1] * total = cache.stats.path_cache_hits * r[2])
    /\ [][ IF GetPathRuns
           THEN \/ /\ last'.hit
                   /\ cache'.stats.path_cache_hits = cache.stats.path_cache_hits + 1
                   /\ cache'.stats.path_cache_misses = cache.stats.path_cache_misses
                \/ /\ ~last'.hit
                   /\ cache'.stats.path_cache_hits = cache.stats.path_cache_hits
                   /\ cache'.stats.path_cache_misses = cache.stats.path_cache_misses + 1
           ELSE /\ cache'.stats.path_cache_hits = cache.stats.path_cache_hits
                /\ cache'.stats.path_cache_misses = cache.stats.path_cache_misses
         ]_vars

\* Four calls: a path stored, one lookup that hits and two that miss; the
\* ratio is 1 / 3.
C39_Witness ==
    /\ calls = 4
    /\ last.op = "get_path"
    /\ cache.stats.path_cache_hits = 1
    /\ cache.stats.path_cache_misses = 2
    /\ get_hit_ratio(cache) = <<1, 3>>

\* The waypoint index of target t is one of its path, or 0 on an empty path.
IndexInRange(t) ==
    \/ t.current_waypoint_index < Len(t.path)
    \/ t.path = <<>> /\ t.current_waypoint_index = 0

\* C40: after any sequence of new, set_path, advance_waypoint,
\* is_at_destination and reset the waypoint index of a PawnTarget does not
\* exceed the last index of its path and none of the calls has panicked;
\* advance_waypoint at the last waypoint leaves the index as it was; set_path
\* with a non-empty path sets the index to 0 and target_position to the last
\* waypoint; set_path with an empty path changes nothing.
C40_WaypointIndexInRange ==
    /\ [](~last.panicked)
    /\ [](entities[1].target.some => IndexInRange(entities[1].target))
    /\ [][ /\ ( /\ calls' = calls + 1 /\ last'.op = "advance_waypoint"
                /\ entities[1].target.current_waypoint_index + 1 = Len(entities[1].target.path) )
              => entities'[1].target = entities[1].target
           /\ (calls' = calls + 1 /\ last'.op = "set_path" /\ last'.path.pts # <<>>)
              => /\ entities'[1].target.path = last'.path.pts
                 /\ entities'[1].target.current_waypoint_index = 0
                 /\ entities'[1].target.target_position = last'.path.pts[Len(last'.path.pts)]
           /\ (calls' = calls + 1 /\ last'.op = "set_path" /\ last'.path.pts = <<>>)
              => entities'[1].target = entities[1].target
         ]_vars

====
